---- MODULE Spec2Model ----
(***************************************************************************)
(* A model of the AssemblyScript compiler driver (compiler.ts): the         *)
(* options, the diagnostics, the initialize and compile passes, the start    *)
(* function synthesizer, the name mangler, the conversion engine and the     *)
(* per-function local slot allocation.                                       *)
(***************************************************************************)
EXTENDS Integers, Sequences, FiniteSets, TLC

VARIABLES
    \* ---- Compiler.compileProgram and the Compiler instance ----
    options,                \* CompilerOptions handed to compileProgram
    program,                \* top-level statements of the program's source files
    preEmitDiagnostics,     \* what typescript.getPreEmitDiagnostics returns
    pc,                     \* position of compileProgram
    phases,                 \* the phases of compileProgram that have run
    diagnostics,            \* Compiler#diagnostics (the collection)
    stderr,                 \* what was written to stderr
    module,                 \* Compiler#module (the binaryen module)
    globalInitializers,     \* Compiler#globalInitializers
    userStartFunction,      \* Compiler#userStartFunction
    globals,                \* Compiler#globals, by mangled name
    functions,              \* Compiler#functions, by mangled name
    classes,                \* Compiler#classes, by mangled name
    enums,                  \* Compiler#enums, by mangled name
    uintptrType,            \* Compiler#uintptrType
    result,                 \* what compileProgram returned
    \* ---- Compiler.compileFunctionOrMethod ----
    func,                   \* the reflected function being compiled
    fpc,                    \* position of compileFunctionOrMethod
    currentLocals,          \* Compiler#currentLocals
    localIndex,             \* the closure variable localIndex
    additionalLocals,       \* the closure variable additionalLocals
    declared,               \* the calls of onVariable so far, with the slot each returned
    currentBreakContextNumber,
    currentBreakContextDepth,
    openLabels,             \* the `label` of each statement lowerer in progress
    outermostLabels,        \* the labels of the outermost break contexts of func
    \* ---- Compiler.mangleGlobalName ----
    mangleArgs,             \* the entry file and two (source file, name) pairs
    mangleRet,              \* the two mangled names
    \* ---- Compiler.maybeConvertValue ----
    convArgs,               \* the types A, B and the value x
    convRet,                \* the emitted expressions and what they evaluate to
    \* ---- expressions.compilePrefixUnary ----
    unaryArgs,              \* the node, the contextual type and the compiler's locals
    unaryRet                \* the emitted expression and the node's reflected type

reflectionVars == <<globals, functions, classes, enums>>
driverVars == <<options, program, preEmitDiagnostics, pc, phases, diagnostics, stderr,
                module, globalInitializers, userStartFunction, uintptrType, result,
                reflectionVars>>
labelVars == <<openLabels, outermostLabels>>
funcVars == <<func, fpc, currentLocals, localIndex, additionalLocals, declared,
              currentBreakContextNumber, currentBreakContextDepth, labelVars>>
mangleVars == <<mangleArgs, mangleRet>>
convVars == <<convArgs, convRet>>
unaryVars == <<unaryArgs, unaryRet>>
vars == <<driverVars, funcVars, mangleVars, convVars, unaryVars>>

(***************************************************************************)
(* Bounds                                                                   *)
(***************************************************************************)
MaxStatements == 2      \* top-level statements of a program
MaxPreEmit == 1         \* pre-emit diagnostics of a program
MaxParameters == 1      \* parameters of a function
MaxVariables == 2       \* variables declared in a function body
MaxDepth == 2           \* nesting of break contexts
MaxSegments == 2        \* path segments of a source file name

(***************************************************************************)
(* reflection.Type and the predefined types                                 *)
(***************************************************************************)
Type(name, kind, size, bits, signed, int, long) ==
    [name |-> name, kind |-> kind, size |-> size, bits |-> bits,
     isSigned |-> signed, isInt |-> int, isLong |-> long]

sbyteType == Type("sbyte", "sbyte", 1, 8, TRUE, FALSE, FALSE)
byteType == Type("byte", "byte", 1, 8, FALSE, FALSE, FALSE)
shortType == Type("short", "short", 2, 16, TRUE, FALSE, FALSE)
ushortType == Type("ushort", "ushort", 2, 16, FALSE, FALSE, FALSE)
intType == Type("int", "int", 4, 32, TRUE, TRUE, FALSE)
uintType == Type("uint", "uint", 4, 32, FALSE, TRUE, FALSE)
longType == Type("long", "long", 8, 64, TRUE, FALSE, TRUE)
ulongType == Type("ulong", "ulong", 8, 64, FALSE, FALSE, TRUE)
boolType == Type("bool", "bool", 1, 1, FALSE, FALSE, FALSE)
floatType == Type("float", "float", 4, 32, TRUE, FALSE, FALSE)
doubleType == Type("double", "double", 8, 64, TRUE, FALSE, FALSE)
uintptrType32 == Type("uintptr32", "uintptr", 4, 32, FALSE, TRUE, FALSE)
uintptrType64 == Type("uintptr64", "uintptr", 8, 64, FALSE, FALSE, TRUE)
voidType == Type("void", "void", 0, 0, FALSE, FALSE, FALSE)
\* what getReflectedType returns of a node whose reflected type was not set
undefinedType == Type("undefined", "undefined", 0, 0, FALSE, FALSE, FALSE)

SignedIntegerTypes == {sbyteType, shortType, intType, longType}
UnsignedIntegerTypes == {boolType, byteType, ushortType, uintType, ulongType}
IntegerTypes == SignedIntegerTypes \cup UnsignedIntegerTypes
ValueTypes == IntegerTypes \cup {floatType, doubleType, uintptrType32, uintptrType64}

\* shift32 = 32 - bitwidth and mask32 = the low-bitwidth mask, of the types
\* narrower than 32 bits; the other types have neither (undefined, which the
\* IR builder's i32.const takes as 0)
shift32(t) == IF t.bits \in 1..31 THEN 32 - t.bits ELSE 0
mask32(t) == IF t.bits \in 1..31 THEN 2 ^ t.bits - 1 ELSE 0

(***************************************************************************)
(* binaryen expressions, as trees, and what the integer ones evaluate to.   *)
(* A value is the set of the positions of its 1 bits: of 0..31 for an i32,  *)
(* of 0..63 for an i64.                                                      *)
(***************************************************************************)
Node(op, imm, name, args) == [op |-> op, imm |-> imm, name |-> name, args |-> args]
Leaf(op, imm) == Node(op, imm, "", <<>>)
Unary(op, a) == Node(op, 0, "", <<a>>)
Binary(op, a, b) == Node(op, 0, "", <<a, b>>)
I32Const(n) == Leaf("i32.const", n)
Operand == Leaf("operand", 0)       \* the expression that is converted
Unreachable == Leaf("unreachable", 0)
Nop == Leaf("nop", 0)
SetGlobal(name, value) == Node("set_global", 0, name, <<value>>)
Call(name, operands) == Node("call", 0, name, operands)
\* binaryen.valueOf(type, module, value)
valueOf(type, value) == Node("const", value, type.name, <<>>)
Block(label, children) == Node("block", 0, label, children)
Loop(label, body) == Node("loop", 0, label, <<body>>)
If(condition, ifTrue) == Node("if", 0, "", <<condition, ifTrue>>)
Break(label) == Node("br", 0, label, <<>>)
GetLocal(index, type) == Node("get_local", index, type, <<>>)
GetGlobal(name, type) == Node("get_global", 0, name, <<>>)
SetLocal(index, value) == Node("set_local", index, "", <<value>>)
TeeLocal(index, value) == Node("tee_local", index, "", <<value>>)
I64Const(n) == Leaf("i64.const", n)
F32Const(n) == Leaf("f32.const", n)
F64Const(n) == Leaf("f64.const", n)
\* what the IR builder is handed where the source passes a syntax node
NotAnExpression == Leaf("node", 0)

Bits32 == 0..31
Bits64 == 0..63

\* the bits of the 32-bit two's complement of n, -2^31 < n < 2^31
BitsOfNat(n) == {i \in 0..30 : (n \div (2 ^ i)) % 2 = 1}
BitsOf(n) == IF n >= 0 THEN BitsOfNat(n) ELSE Bits32 \ BitsOfNat(-n - 1)

\* the shift count of a 32-bit shift is taken modulo 32
ShiftCount(v) == LET low == {i \in v : i < 5}
                     Weight(i) == IF i \in low THEN 2 ^ i ELSE 0
                 IN Weight(0) + Weight(1) + Weight(2) + Weight(3) + Weight(4)

Shl32(v, k) == {i + k : i \in {j \in v : j + k <= 31}}
ShrS32(v, k) == {i - k : i \in {j \in v : j >= k}}
                   \cup (IF 31 \in v THEN (32 - k)..31 ELSE {})

RECURSIVE Eval(_, _)
Eval(e, x) ==
    CASE e.op = "operand" -> x
      [] e.op = "i32.const" -> BitsOf(e.imm)
      [] e.op = "i32.and" -> Eval(e.args[1], x) \cap Eval(e.args[2], x)
      [] e.op = "i32.shl" -> Shl32(Eval(e.args[1], x), ShiftCount(Eval(e.args[2], x)))
      [] e.op = "i32.shr_s" -> ShrS32(Eval(e.args[1], x), ShiftCount(Eval(e.args[2], x)))
      [] e.op = "i32.wrap" -> Eval(e.args[1], x) \cap Bits32
      [] e.op = "i64.extend_u" -> Eval(e.args[1], x) \cap Bits32
      [] e.op = "i64.extend_s" ->
            LET v == Eval(e.args[1], x) \cap Bits32
            IN v \cup (IF 31 \in v THEN 32..63 ELSE {})
      [] OTHER -> {}

(***************************************************************************)
(* Diagnostics                                                              *)
(***************************************************************************)
Diagnostic(category, message, arg1) ==
    [category |-> category, message |-> message, arg1 |-> arg1]

IllegalImplicitConversion(fromType, toType) ==
    Diagnostic("Error", "Illegal implicit conversion", fromType.name \o " to " \o toType.name)

\* the two pointer-width warnings of an implicit conversion
PointerWidthWarnings(fromType, toType, explicit, uintptrSize) ==
    (IF ~explicit /\ uintptrSize = 4 /\ fromType.kind = "uintptr" /\ toType.isInt
     THEN <<Diagnostic("Warning",
              "Implicit conversion from 'uintptr' to 'uint' will fail when targeting WASM64", "")>>
     ELSE <<>>)
    \o
    (IF ~explicit /\ uintptrSize = 8 /\ fromType.isLong /\ toType.kind = "uintptr"
     THEN <<Diagnostic("Warning",
              "Implicit conversion from 'ulong' to 'uintptr' will fail when targeting WASM32", "")>>
     ELSE <<>>)

(***************************************************************************)
(* Compiler.maybeConvertValue: the converted expression and the             *)
(* diagnostics the call records                                             *)
(***************************************************************************)
Converted(expr, diags) == [expr |-> expr, diagnostics |-> diags]

\* an illegalImplicitConversion() that is called whether or not the
\* conversion is explicit
IllegalRepeated(cond, fromType, toType) ==
    <<IllegalImplicitConversion(fromType, toType)>>

\* the diagnostic of illegalImplicitConversion(), which is called where the
\* conversion is not explicit and sets explicit
Illegal(cond, fromType, toType) ==
    IF cond THEN <<IllegalImplicitConversion(fromType, toType)>> ELSE <<>>

\* "int to other int", with the narrowing as the source emits it:
\* shl(shr_s(expr, shift32), shift32)
NarrowSigned(expr, toType) ==
    Binary("i32.shl",
           Binary("i32.shr_s", expr, I32Const(shift32(toType))),
           I32Const(shift32(toType)))

NarrowUnsigned(expr, toType) ==
    Binary("i32.and", expr, I32Const(mask32(toType)))

IntToOtherInt(expr, fromType, toType, explicit) ==
    IF fromType.size < toType.size \/ toType.isInt
    THEN Converted(expr, <<>>)
    ELSE Converted(IF toType.isSigned THEN NarrowSigned(expr, toType)
                                      ELSE NarrowUnsigned(expr, toType),
                   Illegal(~explicit, fromType, toType))

RECURSIVE maybeConvertValue(_, _, _, _, _)
maybeConvertValue(expr, fromType, toType, explicit, uintptrSize) ==
    IF fromType.kind = toType.kind THEN Converted(expr, <<>>)
    ELSE
    LET warnings == PointerWidthWarnings(fromType, toType, explicit, uintptrSize)
        Return(e, diags) == Converted(e, warnings \o diags)
        Chain(e, diags) ==       \* this.maybeConvertValue(node, e, intType, toType, explicit)
            LET inner == maybeConvertValue(e, intType, toType,
                                           explicit \/ diags # <<>>, uintptrSize)
            IN Return(inner.expr, diags \o inner.diagnostics)
        FallThrough(e, from, diags) ==  \* falls out of the branch into "int to other int"
            LET inner == IntToOtherInt(e, from, toType, explicit \/ diags # <<>>)
            IN Return(inner.expr, diags \o inner.diagnostics)
        illegal == Illegal(~explicit, fromType, toType)
        unsignedNarrow == {byteType, ushortType, uintType, uintptrType32, boolType}
        signedNarrow == {sbyteType, shortType, intType}
        unsignedLong == {ulongType, uintptrType64}
    IN
    IF fromType = floatType THEN
        LET d == Illegal(~explicit /\ toType # doubleType, fromType, toType)
        IN CASE toType \in unsignedNarrow -> Chain(Unary("i32.trunc_u.f32", expr), d)
             [] toType \in signedNarrow -> Chain(Unary("i32.trunc_s.f32", expr), d)
             [] toType \in unsignedLong -> Return(Unary("i64.trunc_u.f32", expr), d)
             [] toType = longType -> Return(Unary("i64.trunc_s.f32", expr), d)
             [] toType = doubleType -> Return(Unary("f64.promote", expr), d)
             [] OTHER -> FallThrough(expr, fromType, d)
    ELSE IF fromType = doubleType THEN
        CASE toType \in unsignedNarrow -> Chain(Unary("i32.trunc_u.f64", expr), illegal)
          [] toType \in signedNarrow -> Chain(Unary("i32.trunc_s.f64", expr), illegal)
          [] toType \in unsignedLong -> Return(Unary("i64.trunc_u.f64", expr), illegal)
          [] toType = longType -> Return(Unary("i64.trunc_s.f64", expr), illegal)
          [] toType = floatType -> Return(Unary("f32.demote", expr), illegal)
          [] OTHER -> FallThrough(expr, fromType, illegal)
    ELSE IF toType = floatType THEN
        CASE fromType \in {uintType, uintptrType32} ->
                Return(Unary("f32.convert_u.i32", expr), illegal)
          [] fromType \in {byteType, ushortType, boolType} ->
                Return(Unary("f32.convert_u.i32", expr), <<>>)
          [] fromType = intType -> Return(Unary("f32.convert_s.i32", expr), illegal)
          [] fromType \in {sbyteType, shortType} ->
                Return(Unary("f32.convert_s.i32", expr), <<>>)
          [] fromType \in unsignedLong -> Return(Unary("f32.convert_u.i64", expr), illegal)
          [] fromType = longType -> Return(Unary("f32.convert_s.i64", expr), illegal)
          [] OTHER -> FallThrough(expr, fromType, <<>>)
    ELSE IF toType = doubleType THEN
        CASE fromType \in {uintType, uintptrType32, byteType, ushortType, boolType} ->
                Return(Unary("f64.convert_u.i32", expr), <<>>)
          [] fromType \in {intType, sbyteType, shortType} ->
                Return(Unary("f64.convert_s.i32", expr), <<>>)
          [] fromType \in unsignedLong -> Return(Unary("f64.convert_u.i64", expr), illegal)
          [] fromType = longType -> Return(Unary("f64.convert_s.i64", expr), illegal)
          [] OTHER -> FallThrough(expr, fromType, <<>>)
    ELSE IF fromType.isInt /\ toType.isLong THEN
        Return(Unary(IF toType.isSigned THEN "i64.extend_s" ELSE "i64.extend_u", expr), <<>>)
    ELSE IF fromType.isLong /\ toType.isInt THEN
        FallThrough(Unary("i32.wrap", expr),
             IF fromType.isSigned THEN intType ELSE uintType, illegal)
    ELSE FallThrough(expr, fromType, <<>>)

(***************************************************************************)
(* Compiler.mangleGlobalName.  A file name is the sequence of its path      *)
(* segments, a segment and a name are sequences of characters.              *)
(***************************************************************************)
PathSep == "/"

\* the characters the replace() of mangleGlobalName keeps: [a-zA-Z0-9\.\/\\$]
KeptCharacters == {"a", "b", "x", "y", ".", "/", "\\", "$"}

Min(a, b) == IF a <= b THEN a ELSE b

\* path.dirname
dirname(file) == SubSeq(file, 1, Len(file) - 1)

\* path.relative(from, to) of two normalized paths, as segments
relative(from, to) ==
    LET common == {k \in 0..Min(Len(from), Len(to)) : \A i \in 1..k : from[i] = to[i]}
        k == CHOOSE n \in common : \A m \in common : m <= n
    IN [i \in 1..(Len(from) - k) |-> <<".", ".">>] \o SubSeq(to, k + 1, Len(to))

\* the segments joined by path.sep
RECURSIVE JoinPath(_)
JoinPath(segments) ==
    IF segments = <<>> THEN <<>>
    ELSE IF Len(segments) = 1 THEN segments[1]
    ELSE segments[1] \o <<PathSep>> \o JoinPath(Tail(segments))

IsKept(c) == c \in KeptCharacters

\* .replace(/[^a-zA-Z0-9\.\/\\$]/g, "")
sanitize(text) == SelectSeq(text, IsKept)

mangleGlobalName(name, sourceFile, entryFile, libraryFile) ==
    IF sourceFile # entryFile /\ sourceFile # libraryFile
    THEN sanitize(JoinPath(relative(dirname(entryFile), sourceFile))) \o <<PathSep>> \o name
    ELSE name

\* the inputs of the mangler: segments, files and declared names
Segments == {<<"a">>, <<"b">>, <<"a", "-">>}
RECURSIVE PathsOfLength(_)
PathsOfLength(n) ==
    IF n = 0 THEN {<<>>}
    ELSE {<<s>> \o p : s \in Segments, p \in PathsOfLength(n - 1)}
SourceFiles == UNION {PathsOfLength(n) : n \in 1..MaxSegments}
LibraryFile == <<<<"a", "s", "s", "e", "m", "b", "l", "y", ".", "d", ".", "t", "s">>>>
EntryFiles == {<<<<"a">>>>, <<<<"b">>, <<"a">>>>}
GlobalNames == {<<"x">>, <<"y">>}

(***************************************************************************)
(* The states in which a part of the compiler is not in use                 *)
(***************************************************************************)
NoOptions == [hasUintptrSize |-> FALSE, uintptrSize |-> 0, noLib |-> FALSE, silent |-> FALSE]
NoModule == [exports |-> {}, globals |-> <<>>, functions |-> <<>>, imports |-> <<>>,
             memory |-> "none", start |-> "none"]
NoFunction == [name |-> "", isInstance |-> FALSE, hasBody |-> FALSE, parameters |-> <<>>]

DriverIdle ==
    /\ options = NoOptions
    /\ program = <<>>
    /\ preEmitDiagnostics = <<>>
    /\ pc = "idle"
    /\ phases = {}
    /\ diagnostics = <<>>
    /\ stderr = <<>>
    /\ module = NoModule
    /\ globalInitializers = <<>>
    /\ userStartFunction = "none"
    /\ uintptrType = uintptrType32
    /\ result = "none"
    /\ globals = <<>> /\ functions = <<>> /\ classes = <<>> /\ enums = <<>>

FuncIdle ==
    /\ func = NoFunction
    /\ fpc = "unused"
    /\ currentLocals = <<>>
    /\ localIndex = 0
    /\ additionalLocals = <<>>
    /\ declared = <<>>
    /\ currentBreakContextNumber = 0
    /\ currentBreakContextDepth = 0
    /\ openLabels = <<>>
    /\ outermostLabels = <<>>

MangleIdle ==
    /\ mangleArgs = <<>>
    /\ mangleRet = <<>>

ConvIdle ==
    /\ convArgs = <<>>
    /\ convRet = <<>>

UnaryIdle ==
    /\ unaryArgs = <<>>
    /\ unaryRet = <<>>

(***************************************************************************)
(* SpecMangle: two declarations of one compilation are mangled              *)
(***************************************************************************)
InitMangle ==
    /\ DriverIdle /\ FuncIdle /\ ConvIdle /\ UnaryIdle
    /\ mangleArgs \in [entryFile : EntryFiles,
                       file1 : SourceFiles \cup {LibraryFile}, name1 : GlobalNames,
                       file2 : SourceFiles \cup {LibraryFile}, name2 : GlobalNames]
    /\ mangleRet = <<>>

Mangle ==
    /\ mangleRet = <<>>
    /\ mangleRet' = <<mangleGlobalName(mangleArgs.name1, mangleArgs.file1,
                                       mangleArgs.entryFile, LibraryFile),
                      mangleGlobalName(mangleArgs.name2, mangleArgs.file2,
                                       mangleArgs.entryFile, LibraryFile)>>
    /\ UNCHANGED <<mangleArgs, driverVars, funcVars, convVars, unaryVars>>

NextMangle == Mangle
SpecMangle == InitMangle /\ [][NextMangle]_vars

\* C7: distinct (source file, name) pairs of one compilation have distinct
\* mangled names
C7_MangleInjective ==
    (mangleRet # <<>>
       /\ <<mangleArgs.file1, mangleArgs.name1>> # <<mangleArgs.file2, mangleArgs.name2>>)
    => mangleRet[1] # mangleRet[2]

(***************************************************************************)
(* SpecConvert: a value of type `from` is converted to type `to` by         *)
(* maybeConvertValue, and the result is converted back to `from`            *)
(***************************************************************************)
ProbeBits == {0, 7, 8, 15, 16, 31, 32, 63}

\* the values of a type, as they are held in an i32 or an i64: an unsigned
\* type narrower than 32 bits is zero-extended, a signed one sign-extended
ValuesOf(t) ==
    IF t \notin IntegerTypes \cup {uintptrType32, uintptrType64} THEN {{}}
    ELSE IF t.bits >= 32 THEN SUBSET (ProbeBits \cap 0..(t.bits - 1))
    ELSE {low \cup (IF t.isSigned /\ (t.bits - 1) \in low THEN t.bits..31 ELSE {}) :
             low \in SUBSET ((ProbeBits \cup {t.bits - 1}) \cap 0..(t.bits - 1))}

TypesOf(uintptrSize) ==
    IntegerTypes \cup {floatType, doubleType}
        \cup {IF uintptrSize = 4 THEN uintptrType32 ELSE uintptrType64}

ConvInputs ==
    UNION {UNION {[from : {f}, to : TypesOf(u), x : ValuesOf(f), explicit : BOOLEAN,
                   uintptrSize : {u}] : f \in TypesOf(u)} : u \in {4, 8}}

InitConvert ==
    /\ DriverIdle /\ FuncIdle /\ MangleIdle /\ UnaryIdle
    /\ convArgs \in ConvInputs
    /\ convRet = [stage |-> "input", expr |-> Operand, value |-> convArgs.x,
                  diagnostics |-> <<>>]

\* maybeConvertValue(node, expr, from, to, explicit)
Convert ==
    /\ convRet.stage = "input"
    /\ LET r == maybeConvertValue(convRet.expr, convArgs.from, convArgs.to,
                                  convArgs.explicit, convArgs.uintptrSize)
       IN convRet' = [stage |-> "converted", expr |-> r.expr,
                      value |-> Eval(r.expr, convArgs.x),
                      diagnostics |-> r.diagnostics]
    /\ UNCHANGED <<convArgs, driverVars, funcVars, mangleVars, unaryVars>>

\* maybeConvertValue(node, <the converted expression>, to, from, explicit)
ConvertBack ==
    /\ convRet.stage = "converted"
    /\ LET r == maybeConvertValue(convRet.expr, convArgs.to, convArgs.from,
                                  convArgs.explicit, convArgs.uintptrSize)
       IN convRet' = [stage |-> "back", expr |-> r.expr,
                      value |-> Eval(r.expr, convArgs.x),
                      diagnostics |-> convRet.diagnostics \o r.diagnostics]
    /\ UNCHANGED <<convArgs, driverVars, funcVars, mangleVars, unaryVars>>

NextConvert == Convert \/ ConvertBack
SpecConvert == InitConvert /\ [][NextConvert]_vars

SameSignedness(a, b) ==
    \/ a \in SignedIntegerTypes /\ b \in SignedIntegerTypes
    \/ a \in UnsignedIntegerTypes /\ b \in UnsignedIntegerTypes

\* C8: for integer types A, B of the same signedness with A.size <= B.size,
\* converting a value x of A to B and the result back to A evaluates to x
C8_RoundTrip ==
    (convRet.stage = "back"
       /\ SameSignedness(convArgs.from, convArgs.to)
       /\ convArgs.from.size <= convArgs.to.size)
    => convRet.value = convArgs.x

\* the low `bits` bits of x, zero-extended and sign-extended to 32 bits
ZeroExtended(x, bits) == x \cap 0..(bits - 1)
SignExtended(x, bits) ==
    ZeroExtended(x, bits) \cup (IF (bits - 1) \in x THEN bits..31 ELSE {})

IsNarrowing32 ==
    /\ convArgs.from \in {intType, uintType}
    /\ convArgs.to \in IntegerTypes
    /\ convArgs.to.bits < 32

\* C9: the code emitted for narrowing a 32-bit integer x to a narrower type A
\* evaluates to the low bits of x, zero-extended when A is unsigned and
\* sign-extended when A is signed
C9_Narrowing ==
    (convRet.stage = "converted" /\ IsNarrowing32)
    => convRet.value = IF convArgs.to.isSigned
                       THEN SignExtended(convArgs.x, convArgs.to.bits)
                       ELSE ZeroExtended(convArgs.x, convArgs.to.bits)

\* the 'Illegal implicit conversion' diagnostics among diags
IllegalConversions(diags) ==
    {i \in DOMAIN diags : diags[i].message = "Illegal implicit conversion"}

\* the converted expression is built on the expression that was handed in
RECURSIVE ContainsOperand(_)
ContainsOperand(e) ==
    e = Operand \/ \E i \in DOMAIN e.args : ContainsOperand(e.args[i])

\* C11: one top-level call of maybeConvertValue between distinct types records
\* no 'Illegal implicit conversion' when explicit, at most one when implicit
\* (also when it chains through an intermediate type), and returns a converted
\* expression in both cases
C11_IllegalOnce ==
    (convRet.stage = "converted" /\ convArgs.from # convArgs.to)
    => /\ convArgs.explicit => IllegalConversions(convRet.diagnostics) = {}
       /\ Cardinality(IllegalConversions(convRet.diagnostics)) <= 1
       /\ ContainsOperand(convRet.expr)
       /\ convRet.expr.op # "unreachable"

\* double to sbyte, implicit: the conversion chains through int and narrows
C11_Witness ==
    /\ convRet.stage = "converted"
    /\ ~convArgs.explicit
    /\ convArgs.from = doubleType /\ convArgs.to = sbyteType
    /\ convRet.expr.op = "i32.shl"
    /\ Cardinality(IllegalConversions(convRet.diagnostics)) = 1

\* an integer held in an i32 is converted to a 64-bit integer
IsWidening64 ==
    /\ convArgs.from \in IntegerTypes /\ convArgs.from.bits <= 32
    /\ convArgs.to \in {longType, ulongType}

\* C12: a 32-bit-family integer converted to a 64-bit integer is extended as
\* the conversion table says: extend_s from a signed source to long, extend_u
\* in every other case, and the two mixed-signedness conversions record the
\* implicit-conversion diagnostic when the conversion is implicit
C12_Extend ==
    (convRet.stage = "converted" /\ IsWidening64)
    => /\ convRet.expr =
             Unary(IF convArgs.from.isSigned /\ convArgs.to = longType
                   THEN "i64.extend_s" ELSE "i64.extend_u", Operand)
       /\ (~convArgs.explicit /\ convArgs.from.isSigned # convArgs.to.isSigned)
             => IllegalConversions(convRet.diagnostics) # {}

(***************************************************************************)
(* CompilerOptions                                                          *)
(***************************************************************************)
UintptrSizeValues == {0, 4, 8, 16}

CompilerOptions ==
    {[hasUintptrSize |-> FALSE, uintptrSize |-> 0, noLib |-> n, silent |-> q] :
        n \in BOOLEAN, q \in BOOLEAN}
    \cup [hasUintptrSize : {TRUE}, uintptrSize : UintptrSizeValues,
          noLib : BOOLEAN, silent : BOOLEAN]

\* get uintptrSize(): this.options.uintptrSize || 4
uintptrSize(opts) ==
    IF opts.hasUintptrSize /\ opts.uintptrSize # 0 THEN opts.uintptrSize ELSE 4

\* the constructor's test that throws Error("unsupported uintptrSize")
unsupportedUintptrSize(opts) ==
    /\ opts.hasUintptrSize /\ opts.uintptrSize # 0
    /\ opts.uintptrSize # 4
    /\ opts.uintptrSize # 8

\* the module the constructor reads from the malloc blob
MallocModule ==
    [exports |-> {"mspace_init", "mspace_malloc", "mspace_free"},
     globals |-> <<>>,
     functions |-> <<[name |-> "mspace_init", signature |-> "blob", locals |-> <<>>,
                      body |-> <<>>],
                     [name |-> "mspace_malloc", signature |-> "blob", locals |-> <<>>,
                      body |-> <<>>],
                     [name |-> "mspace_free", signature |-> "blob", locals |-> <<>>,
                      body |-> <<>>]>>,
     imports |-> <<>>, memory |-> "imported", start |-> "none"]

(***************************************************************************)
(* The program: top-level statements                                        *)
(***************************************************************************)
\* a node below a top-level statement: its kind, its text (of an identifier
\* or a name) and its children (modifiers, expressions, statements)
Ast(kind, text, children) == [kind |-> kind, text |-> text, children |-> children]
NoNode == Ast("none", "", <<>>)
NumericLiteral == Ast("NumericLiteral", "1", <<>>)
TrueKeyword == Ast("TrueKeyword", "", <<>>)
NullKeyword == Ast("NullKeyword", "", <<>>)
Identifier(text) == Ast("Identifier", text, <<>>)
StringLiteral == Ast("StringLiteral", "", <<>>)
\* node.operator is the name of the token, node.operand the only child
PrefixUnaryExpression(operator, operand) == Ast("PrefixUnaryExpression", operator, <<operand>>)
EmptyStatement == Ast("EmptyStatement", "", <<>>)
DebuggerStatement == Ast("DebuggerStatement", "", <<>>)
\* while (expression) statement
WhileStatement(expression, statement) == Ast("WhileStatement", "", <<expression, statement>>)

Statement(kind, name, type, mutable, initializer, parameters, flags, body) ==
    [kind |-> kind, name |-> name, type |-> type, mutable |-> mutable,
     initializer |-> initializer, parameters |-> parameters, isExport |-> flags[1],
     isImport |-> flags[2], hasBody |-> flags[3], body |-> body,
     isInstance |-> Len(flags) > 3 /\ flags[4]]

\* let/const name: type = initializer
VariableStatement(name, type, mutable, initializer) ==
    Statement("VariableStatement", name, type, mutable, initializer, 0,
              <<FALSE, FALSE, FALSE>>, <<>>)

\* function name(parameters): type body
FunctionDeclaration(name, parameters, type, isExport, isImport, hasBody, body) ==
    Statement("FunctionDeclaration", name, type, FALSE, NoNode, parameters,
              <<isExport, isImport, hasBody>>, body)

\* the members of a class: the modifiers and the body are children
StaticKeyword == Ast("StaticKeyword", "", <<>>)
BlockOf(statements) == Ast("Block", "", statements)
Constructor == Ast("Constructor", "", <<BlockOf(<<EmptyStatement>>)>>)
MethodDeclaration(name, modifiers) ==
    Ast("MethodDeclaration", name, modifiers \o <<BlockOf(<<EmptyStatement>>)>>)
PropertyDeclaration(name) == Ast("PropertyDeclaration", name, <<Ast("IntKeyword", "", <<>>)>>)
isStatic(node) == \E i \in DOMAIN node.children : node.children[i] = StaticKeyword
Bodies(node) == {i \in DOMAIN node.children : node.children[i].kind = "Block"}

\* class name { members }
ClassDeclaration(name, members) ==
    Statement("ClassDeclaration", name, voidType, FALSE, NoNode, 0,
              <<FALSE, FALSE, FALSE>>, members)

\* enum name { ... }
EnumMember(name) == Ast("EnumMember", name, <<>>)
EnumDeclaration(name, members) ==
    Statement("EnumDeclaration", name, voidType, FALSE, NoNode, 0,
              <<FALSE, FALSE, FALSE>>, members)

OtherStatement(kind) ==
    Statement(kind, "", voidType, FALSE, NoNode, 0, <<FALSE, FALSE, FALSE>>, <<>>)

Statements ==
    {VariableStatement("g", intType, TRUE, NumericLiteral),       \* let g: int = 1
     VariableStatement("h", intType, TRUE, TrueKeyword),          \* let h: int = true
     VariableStatement("k", intType, FALSE, TrueKeyword),         \* const k: int = true
     VariableStatement("p", uintType, TRUE, NullKeyword),         \* let p: uint = null
     VariableStatement("i", intType, TRUE, Identifier("g")),      \* let i: int = g
     FunctionDeclaration("start", 0, voidType, FALSE, FALSE, TRUE, <<EmptyStatement>>),
     FunctionDeclaration("start", 1, voidType, FALSE, FALSE, TRUE, <<EmptyStatement>>),
     FunctionDeclaration("f", 0, voidType, TRUE, FALSE, TRUE, <<DebuggerStatement>>),
     FunctionDeclaration("m", 0, voidType, FALSE, FALSE, FALSE, <<>>),  \* function m(): void;
     FunctionDeclaration("a$b", 0, voidType, FALSE, TRUE, FALSE, <<>>), \* an import
     OtherStatement("ExpressionStatement")}

RECURSIVE SeqsOfLength(_, _)
SeqsOfLength(S, n) ==
    IF n = 0 THEN {<<>>}
    ELSE {<<e>> \o q : e \in S, q \in SeqsOfLength(S, n - 1)}
SeqsUpTo(S, n) == UNION {SeqsOfLength(S, k) : k \in 0..n}

Programs == SeqsUpTo(Statements, MaxStatements)

\* what typescript.getPreEmitDiagnostics can return
PreEmitDiagnostics ==
    SeqsUpTo({Diagnostic("Warning", "pre-emit", ""), Diagnostic("Error", "pre-emit", "")},
             MaxPreEmit)

(***************************************************************************)
(* Compiler.info / warn / error: the diagnostic is added to the collection  *)
(* and printed unless options.silent.  c is the state of the compiler.      *)
(***************************************************************************)
Printed(opts, diags) == IF opts.silent THEN <<>> ELSE diags

report(c, opts, diags) ==
    [c EXCEPT !.diagnostics = @ \o diags, !.stderr = @ \o Printed(opts, diags)]

error(c, opts, message, arg1) == report(c, opts, <<Diagnostic("Error", message, arg1)>>)

(***************************************************************************)
(* The locals of a function                                                 *)
(***************************************************************************)
\* reflection.Variable
Variable(name, type, index) == [name |-> name, type |-> type, index |-> index]

\* reflection.Function#locals: `this` of an instance method, then the
\* parameters, each with its slot
localsOf(f) ==
    LET names == (IF f.isInstance THEN <<[name |-> "this", type |-> uintptrType32]>>
                                  ELSE <<>>) \o f.parameters
    IN [i \in 1..Len(names) |-> Variable(names[i].name, names[i].type, i - 1)]

\* binaryen.typeOf(type, uintptrSize)
typeOf(type, size) ==
    CASE type = floatType -> "f32"
      [] type = doubleType -> "f64"
      [] type.kind = "uintptr" -> IF size = 4 THEN "i32" ELSE "i64"
      [] type.isLong -> "i64"
      [] OTHER -> "i32"

\* the entries of the function's locals, by name
RECURSIVE withLocals(_, _)
withLocals(locals, list) ==
    IF list = <<>> THEN locals
    ELSE withLocals((list[1].name :> list[1]) @@ locals, Tail(list))

\* compiler.currentLocals: undefined until the first function is compiled
Locals(defined, map) == [defined |-> defined, map |-> map]
UndefinedLocals == Locals(FALSE, <<>>)

(***************************************************************************)
(* Compiler.compileExpression and compileStatement, for the nodes of the    *)
(* programs above                                                           *)
(***************************************************************************)
Lowered(expr, type, diags, throws) ==
    [expr |-> expr, type |-> type, diagnostics |-> diags, throws |-> throws]

\* expressions.compileIdentifier: the read of compiler.currentLocals[node.text]
\* throws a TypeError while currentLocals is undefined
compileIdentifier(node, contextualType, uptrType, locals) ==
    IF ~locals.defined THEN Lowered(Unreachable, contextualType, <<>>, TRUE)
    ELSE IF node.text \in DOMAIN locals.map
    THEN LET referencedLocal == locals.map[node.text]
         IN Lowered(GetLocal(referencedLocal.index, typeOf(referencedLocal.type, uptrType.size)),
                    referencedLocal.type, <<>>, FALSE)
    ELSE Lowered(Unreachable, contextualType,
                 <<Diagnostic("Error", "Undefined local variable", node.text)>>, FALSE)

(***************************************************************************)
(* expressions.compilePrefixUnary; operand is what                          *)
(* compiler.compileExpression(node.operand, contextualType) returned, with  *)
(* the reflected type of node.operand.  A case of the switch is the         *)
(* expression it builds, the conversion it hands the expression to (from a  *)
(* type to itself where it calls none), the xor it wraps the converted      *)
(* expression in, and the reflected type it sets.                           *)
(***************************************************************************)
Case(expr, from, to, xor, type, diags, throws) ==
    [expr |-> expr, from |-> from, to |-> to, xor |-> xor, type |-> type,
     diagnostics |-> diags, throws |-> throws]

\* return expr, after setReflectedType(node, type)
Returns(expr, type) == Case(expr, type, type, "", type, <<>>, FALSE)

\* return compiler.maybeConvertValue(node, expr, from, to, true)
ReturnsConverted(expr, from, to, type) == Case(expr, from, to, "", type, <<>>, FALSE)

\* the read of a property of an operand type that is undefined: a TypeError
TypeErrorOf == Case(Unreachable, undefinedType, undefinedType, "", undefinedType, <<>>, TRUE)

\* case typescript.SyntaxKind.ExclamationToken
ExclamationToken(operand) ==
    IF operand.type = undefinedType THEN TypeErrorOf
    ELSE Returns(CASE operand.type = floatType -> Binary("f32.eq", operand.expr, F32Const(0))
                   [] operand.type = doubleType -> Binary("f64.eq", operand.expr, F64Const(0))
                   [] operand.type.isLong -> Unary("i64.eqz", operand.expr)
                   [] OTHER -> Unary("i32.eqz", operand.expr),
                 boolType)

\* case typescript.SyntaxKind.PlusToken
PlusToken(operand) == Returns(operand.expr, operand.type)

\* case typescript.SyntaxKind.MinusToken; f32.neg and f64.neg are handed
\* node.operand, the syntax node
MinusToken(operand) ==
    IF operand.type = undefinedType THEN TypeErrorOf
    ELSE IF operand.type = floatType THEN Returns(Unary("f32.neg", NotAnExpression), operand.type)
    ELSE IF operand.type = doubleType THEN Returns(Unary("f64.neg", NotAnExpression), operand.type)
    ELSE IF operand.type.isLong
    THEN Returns(Binary("i64.sub", I64Const(0), operand.expr), operand.type)
    ELSE ReturnsConverted(Binary("i32.sub", I32Const(0), operand.expr), intType, operand.type,
                          operand.type)

\* the xor with all ones, in 32 or in 64 bits
Xor(width, expr) ==
    Binary(width \o ".xor", expr, IF width = "i64" THEN I64Const(-1) ELSE I32Const(-1))

\* a TildeToken case that widens every operand that is not a long to a long
\* contextual type
TildeTokenWidening(operand, contextualType) ==
    IF operand.type = undefinedType THEN TypeErrorOf
    ELSE IF operand.type.isLong THEN Returns(Xor("i64", operand.expr), operand.type)
    ELSE IF contextualType.isLong
    THEN Case(operand.expr, operand.type, contextualType, "i64", contextualType, <<>>, FALSE)
    ELSE IF operand.type.isInt THEN Returns(Xor("i32", operand.expr), operand.type)
    ELSE Case(operand.expr, operand.type, intType, "i32", intType, <<>>, FALSE)

\* case typescript.SyntaxKind.TildeToken
TildeToken(operand, contextualType) ==
    IF operand.type = undefinedType THEN TypeErrorOf
    ELSE IF operand.type.isLong THEN Returns(Xor("i64", operand.expr), operand.type)
    ELSE IF operand.type.isInt THEN Returns(Xor("i32", operand.expr), operand.type)
    ELSE IF contextualType.isLong
    THEN Case(operand.expr, operand.type, contextualType, "i64", contextualType, <<>>, FALSE)
    ELSE Case(operand.expr, operand.type, intType, "i32", intType, <<>>, FALSE)

\* the end of compilePrefixUnary: the error, without a reflected type
UnsupportedPrefixOperator(node) ==
    Case(Unreachable, undefinedType, undefinedType, "", undefinedType,
         <<Diagnostic("Error", "Unsupported unary prefix operator", node.text)>>, FALSE)

\* binaryen.categoryOf(type, module, uintptrSize): the instructions of the
\* IR type of the type
categoryOf(type, size) == typeOf(type, size)

\* case typescript.SyntaxKind.PlusPlusToken, MinusMinusToken
PlusPlusToken(node, contextualType, uptrType, locals) ==
    IF node.children[1].kind = "Identifier" /\ node.children[1].text \in DOMAIN locals.map
    THEN LET local == locals.map[node.children[1].text]
             cat == categoryOf(local.type, uptrType.size)
             isIncrement == node.text = "PlusPlusToken"
             calculate == Binary(cat \o (IF isIncrement THEN ".add" ELSE ".sub"),
                                 GetLocal(local.index, typeOf(uptrType, uptrType.size)),
                                 valueOf(local.type, 1))
         IN IF contextualType = voidType
            THEN Returns(SetLocal(local.index, calculate), voidType)
            ELSE ReturnsConverted(TeeLocal(local.index, calculate), intType, local.type,
                                  local.type)
    ELSE UnsupportedPrefixOperator(node)

\* switch (node.operator)
switch(node, contextualType, uptrType, locals, operand) ==
    CASE node.text = "ExclamationToken" -> ExclamationToken(operand)
      [] node.text = "PlusToken" -> PlusToken(operand)
      [] node.text = "MinusToken" -> MinusToken(operand)
      [] node.text = "TildeToken" -> TildeToken(operand, contextualType)
      [] node.text \in {"PlusPlusToken", "MinusMinusToken"} ->
            PlusPlusToken(node, contextualType, uptrType, locals)
      [] OTHER -> UnsupportedPrefixOperator(node)

\* what compilePrefixUnary returns of the case taken and of what
\* maybeConvertValue made of the expression of the case
returned(operand, case, converted) ==
    IF case.throws THEN Lowered(Unreachable, undefinedType, operand.diagnostics, TRUE)
    ELSE Lowered(IF case.xor = "" THEN converted.expr ELSE Xor(case.xor, converted.expr),
                 case.type,
                 operand.diagnostics \o converted.diagnostics \o case.diagnostics, FALSE)

\* the cases of compilePrefixUnary, each with its conversion
converting(operand, case, size) ==
    returned(operand, case, maybeConvertValue(case.expr, case.from, case.to, TRUE, size))

compilePrefixUnary(node, contextualType, uptrType, locals, operand) ==
    IF operand.throws THEN operand
    ELSE converting(operand, switch(node, contextualType, uptrType, locals, operand),
                    uptrType.size)

\* Compiler.compileExpression
RECURSIVE compileExpression(_, _, _, _)
compileExpression(node, contextualType, uptrType, locals) ==
    CASE node.kind = "TrueKeyword" -> Lowered(valueOf(boolType, 1), boolType, <<>>, FALSE)
      [] node.kind = "NullKeyword" -> Lowered(valueOf(uptrType, 0), uptrType, <<>>, FALSE)
      [] node.kind = "Identifier" -> compileIdentifier(node, contextualType, uptrType, locals)
      [] node.kind = "PrefixUnaryExpression" ->
            compilePrefixUnary(node, contextualType, uptrType, locals,
                               compileExpression(node.children[1], contextualType, uptrType,
                                                 locals))
      [] OTHER ->
            Lowered(Unreachable, contextualType,
                    <<Diagnostic("Error", "Unsupported expression node", node.kind)>>, FALSE)

\* get currentBreakLabel()
currentBreakLabel(number, depth) == ToString(number) \o "." \o ToString(depth)

\* what a statement lowers to, and the break context it leaves
LoweredIn(expr, diags, throws, number, depth) ==
    [expr |-> expr, type |-> voidType, diagnostics |-> diags, throws |-> throws,
     number |-> number, depth |-> depth]

\* the break context number after enterBreakContext()
entered(number, depth) == IF depth = 0 THEN number + 1 ELSE number

\* what compileWhile builds of its label, the lowered statement, the lowered
\* condition and the condition converted to int, and the break context it
\* leaves: block $break { loop $continue { if (condition) { statement; br } } }
loweredWhile(label, hasStatement, statement, condition, converted) ==
    LET ifTrue == (IF hasStatement THEN <<statement.expr>> ELSE <<>>)
                     \o <<Break("continue$" \o label)>>
        loop == Loop("continue$" \o label,
                     If(converted.expr, IF Len(ifTrue) = 1 THEN ifTrue[1] ELSE Block("", ifTrue)))
        diags == statement.diagnostics \o condition.diagnostics \o converted.diagnostics
    IN IF statement.throws \/ condition.throws
       THEN LoweredIn(Unreachable, diags, TRUE, statement.number, statement.depth)
       ELSE IF statement.depth < 1                              \* leaveBreakContext()
       THEN LoweredIn(Unreachable, diags, TRUE, statement.number, statement.depth)
       ELSE LoweredIn(Block("break$" \o label, <<loop>>), diags, FALSE,
                      statement.number, statement.depth - 1)

\* the condition of compileWhile, converted to int
convertedWhile(label, hasStatement, statement, condition, size) ==
    loweredWhile(label, hasStatement, statement, condition,
                 maybeConvertValue(condition.expr, condition.type, intType, TRUE, size))

\* a compileWhile whose loop body ends with a branch to the break label
compileWhileBranchOut(node, env, number, depth, statement) ==
    LET label == currentBreakLabel(entered(number, depth), depth + 1)
        condition == compileExpression(node.children[1], intType, env.uintptrType, env.locals)
        loop == Loop("continue$" \o label,
                     If(condition.expr,
                        Block("", <<statement.expr, Break("break$" \o label)>>)))
    IN LoweredIn(Block("break$" \o label, <<loop>>),
                 statement.diagnostics \o condition.diagnostics, FALSE,
                 statement.number, statement.depth - 1)

\* statements.compileWhile; env is the compiler's currentLocals, uintptrType
\* and uintptrSize, number and depth its break context, and statement what
\* compiler.compileStatement(node.statement) returned in the entered context
compileWhile(node, env, number, depth, statement) ==
    convertedWhile(currentBreakLabel(entered(number, depth), depth + 1),
                   Len(node.children) >= 2, statement,
                   compileExpression(node.children[1], intType, env.uintptrType, env.locals),
                   env.uintptrSize)

\* Compiler.compileStatement
RECURSIVE compileStatement(_, _, _, _)
compileStatement(node, env, number, depth) ==
    CASE node.kind = "EmptyStatement" -> LoweredIn(Nop, <<>>, FALSE, number, depth)
      [] node.kind = "WhileStatement" ->
            compileWhile(node, env, number, depth,
                         IF Len(node.children) >= 2
                         THEN compileStatement(node.children[2], env,
                                               entered(number, depth), depth + 1)
                         ELSE LoweredIn(Nop, <<>>, FALSE, entered(number, depth), depth + 1))
      [] OTHER ->
            LoweredIn(Unreachable,
                      <<Diagnostic("Error", "Unsupported statement node", node.kind)>>,
                      FALSE, number, depth)

(***************************************************************************)
(* Compiler.initialize                                                      *)
(***************************************************************************)
addGlobal(c, name, type, mutable, init) ==
    [c EXCEPT !.module.globals =
        Append(@, [name |-> name, type |-> type.name, mutable |-> mutable, init |-> init])]

\* this.globals[name] = new reflection.Variable(name, type, flags, 0, 0)
ReflectedIn(map, name, kind) == (name :> [kind |-> kind, name |-> name]) @@ map

\* the initializer of a mutable global, deferred to the start function
deferred(added, opts, name, type, value) ==
    LET conv == maybeConvertValue(value.expr, value.type, type, FALSE, uintptrSize(opts))
    IN IF value.throws THEN [added EXCEPT !.thrown = TRUE]
       ELSE [report(added, opts, value.diagnostics \o conv.diagnostics)
                EXCEPT !.globalInitializers = Append(@, SetGlobal(name, conv.expr))]

createGlobal(c, opts, uptrType, name, type, mutable, initializer) ==
    LET stored == [c EXCEPT !.globals = ReflectedIn(@, name, "Variable")]
    IN
    IF initializer = NoNode THEN addGlobal(stored, name, type, mutable, "zero")
    ELSE IF initializer.kind = "NumericLiteral"
    THEN addGlobal(stored, name, type, mutable, "literal")
    ELSE IF mutable THEN
        deferred(addGlobal(stored, name, type, mutable, "zero"), opts, name, type,
                 compileExpression(initializer, type, uptrType, UndefinedLocals))
    ELSE error(stored, opts, "Unsupported global constant initializer", "")

\* the global name of a function, a constructor or a method; the statements
\* are those of the entry file, whose names mangleGlobalName leaves as they are
functionName(parentName, node) ==
    IF node.kind = "FunctionDeclaration" THEN node.name
    ELSE IF node.kind = "Constructor" THEN parentName
    ELSE IF isStatic(node) THEN parentName \o "." \o node.text
    ELSE parentName \o "#" \o node.text

\* initializeFunction for a function, a constructor or a method that is not
\* generic: this.functions[name] = template.resolve(this, [])
initializeFunction(c, parentName, node) ==
    [c EXCEPT !.functions = ReflectedIn(@, functionName(parentName, node), "Function")]

\* the loop of initializeClass over the members
RECURSIVE initializeMembers(_, _, _, _)
initializeMembers(c, opts, name, members) ==
    IF members = <<>> THEN c
    ELSE LET member == members[1]
             next == CASE member.kind = "PropertyDeclaration" ->
                            IF member.children = <<>>
                            THEN error(c, opts, "Type expected", "")
                            ELSE c
                       [] member.kind \in {"Constructor", "MethodDeclaration"} ->
                            initializeFunction(c, name, member)
                       [] OTHER -> error(c, opts, "Unsupported class member", member.kind)
         IN initializeMembers(next, opts, name, Tail(members))

\* initializeClass for a class that is not generic
initializeClass(c, opts, statement) ==
    initializeMembers([c EXCEPT !.classes = ReflectedIn(@, statement.name, "Class")],
                      opts, statement.name, statement.body)

\* new reflection.Enum(name, node) with one property of type int per member
Enum(statement) ==
    [kind |-> "Enum", name |-> statement.name,
     properties |-> [i \in DOMAIN statement.body |->
                        [name |-> statement.body[i].text, type |-> intType]]]

\* initializeEnum, which reflects the enum and stores it nowhere
initializeEnum(c, statement) ==
    LET instance == Enum(statement)
    IN c

\* what resolveReference returns where it resolves nothing
null == [kind |-> "null", name |-> ""]

\* Compiler.resolveReference of a name, which mangles to itself in the entry file
resolveReference(c, locals, name) ==
    IF locals.defined /\ name \in DOMAIN locals.map THEN locals.map[name]
    ELSE IF name \in DOMAIN c.globals THEN c.globals[name]
    ELSE IF name \in DOMAIN c.enums THEN c.enums[name]
    ELSE IF name \in DOMAIN c.classes THEN c.classes[name]
    ELSE null

initializeStatement(c, opts, uptrType, statement) ==
    CASE statement.kind = "VariableStatement" ->
            createGlobal(c, opts, uptrType, statement.name, statement.type,
                         statement.mutable, statement.initializer)
      [] statement.kind = "FunctionDeclaration" -> initializeFunction(c, "", statement)
      [] statement.kind = "ClassDeclaration" -> initializeClass(c, opts, statement)
      [] statement.kind = "EnumDeclaration" -> initializeEnum(c, statement)
      [] statement.kind \in {"EndOfFileToken", "InterfaceDeclaration",
                             "TypeAliasDeclaration", "ImportDeclaration"} -> c
      [] OTHER -> error(c, opts, "Unsupported top-level statement", statement.kind)

RECURSIVE initializeStatements(_, _, _, _)
initializeStatements(c, opts, uptrType, statements) ==
    IF statements = <<>> \/ c.thrown THEN c
    ELSE initializeStatements(initializeStatement(c, opts, uptrType, statements[1]),
                              opts, uptrType, Tail(statements))

addFunction(c, name, signature, locals, body) ==
    [c EXCEPT !.module.functions =
        Append(@, [name |-> name, signature |-> signature, locals |-> locals,
                   body |-> body])]

\* a library initialization that keeps the exports of the malloc blob
initializeLibraryKeepExports(c, opts, uptrType) ==
    LET mspInit == SetGlobal(".msp",
                      Call("mspace_init", <<valueOf(uptrType, uintptrSize(opts) * 2)>>))
        withMsp == [addGlobal(c, ".msp", uptrType, TRUE, "zero") EXCEPT
                       !.globalInitializers = Append(@, mspInit)]
    IN [withMsp EXCEPT !.module.exports = @ \cup {"malloc", "free"}]

initializeLibrary(c, opts, uptrType) ==
    LET mspInit == SetGlobal(".msp",
                      Call("mspace_init", <<valueOf(uptrType, uintptrSize(opts) * 2)>>))
        withMsp == [addGlobal(c, ".msp", uptrType, TRUE, "zero") EXCEPT
                       !.globalInitializers = Append(@, mspInit),
                       !.module.exports = @ \ {"mspace_init", "mspace_malloc", "mspace_free"}]
        withMalloc == addFunction(withMsp, "malloc",
                                  IF uintptrSize(opts) = 4 THEN "ii" ELSE "II", <<>>,
                                  <<Call("mspace_malloc", <<>>)>>)
        withFree == addFunction(withMalloc, "free",
                                IF uintptrSize(opts) = 4 THEN "iv" ELSE "Iv", <<>>,
                                <<Call("mspace_free", <<>>)>>)
    IN [withFree EXCEPT !.module.exports = @ \cup {"malloc", "free"}]

initialize(c, opts, uptrType, statements) ==
    LET scanned == initializeStatements(c, opts, uptrType, statements)
    IN IF scanned.thrown THEN scanned
       ELSE IF opts.noLib THEN [scanned EXCEPT !.module.memory = "own"]
       ELSE initializeLibrary(scanned, opts, uptrType)

(***************************************************************************)
(* Compiler.compile                                                         *)
(***************************************************************************)
\* the characters of the names of the programs above
Characters(name) ==
    CASE name = "a$b" -> <<"a", "$", "b">>
      [] name = "$b" -> <<"$", "b">>
      [] name = "ab" -> <<"a", "b">>
      [] name = "a$b$a" -> <<"a", "$", "b", "$", "a">>
      [] name = "start" -> <<"s", "t", "a", "r", "t">>
      [] OTHER -> <<name>>

\* String.indexOf, counted from 0; -1 if the character does not occur
indexOf(text, c) ==
    IF \E i \in 1..Len(text) : text[i] = c
    THEN (CHOOSE i \in 1..Len(text) : text[i] = c /\ \A j \in 1..(i - 1) : text[j] # c) - 1
    ELSE -1

\* func.binaryenSignature
SignatureOf(statement) ==
    IF statement.parameters = 0 THEN "v" ELSE "iv"

\* func.parameters, which are named a, b, ...
ParametersOf(statement) ==
    [i \in 1..statement.parameters |->
        [name |-> <<"a", "b", "c">>[i], type |-> intType]]

\* body[bodyIndex++] = compiler.compileStatement(...): the statements lowered
\* so far and the statement lowered next
appended(done, next) ==
    LoweredIn(done.expr \o (IF next.throws THEN <<>> ELSE <<next.expr>>),
              done.diagnostics \o next.diagnostics, next.throws, next.number, next.depth)

\* the loop of compileFunctionOrMethod over the statements of the body
RECURSIVE compileStatements(_, _, _)
compileStatements(body, env, done) ==
    IF body = <<>> \/ done.throws THEN done
    ELSE compileStatements(Tail(body), env,
                           appended(done, compileStatement(body[1], env, done.number,
                                                           done.depth)))

\* the end of compileFunctionOrMethod: module.addFunction(func.name, ...)
addCompiled(c, opts, statement, body) ==
    IF body.throws THEN [report(c, opts, body.diagnostics) EXCEPT !.thrown = TRUE]
    ELSE addFunction(report(c, opts, body.diagnostics), statement.name,
                     SignatureOf(statement), <<>>, body.expr)

\* the compiler's currentLocals, uintptrType and uintptrSize in the function
environment(opts, statement) ==
    [locals |-> Locals(TRUE, withLocals(<<>>,
                    localsOf([isInstance |-> statement.isInstance,
                              parameters |-> ParametersOf(statement)]))),
     uintptrSize |-> uintptrSize(opts),
     uintptrType |-> IF uintptrSize(opts) = 4 THEN uintptrType32 ELSE uintptrType64]

compileFunctionOrMethod(c, opts, statement) ==
    IF ~statement.hasBody THEN [c EXCEPT !.thrown = TRUE]   \* Error("missing body")
    ELSE addCompiled(c, opts, statement,
                     compileStatements(statement.body, environment(opts, statement),
                                       LoweredIn(<<>>, <<>>, FALSE, 0, 0)))

\* the end of compileFunction: the export and the user's start function
registered(statement, compiled) ==
    LET exported == IF statement.isExport
                    THEN [compiled EXCEPT !.module.exports = @ \cup {statement.name}]
                    ELSE compiled
    IN IF compiled.thrown THEN compiled
       ELSE IF statement.name = "start" /\ statement.parameters = 0
                  /\ statement.type = voidType
            THEN [exported EXCEPT !.userStartFunction = statement.name]
            ELSE exported

\* a compileFunction that also compiles and exports an import function
compileFunctionOfImport(c, opts, statement) ==
    registered(statement, compileFunctionOrMethod(c, opts, [statement EXCEPT !.hasBody = TRUE]))

compileFunction(c, opts, statement) ==
    IF statement.isImport THEN
        LET name == Characters(statement.name)
            idx == indexOf(name, "$")
            import == IF idx > 0
                      THEN [name |-> statement.name, module |-> SubSeq(name, 1, idx),
                            base |-> SubSeq(name, idx + 2, Len(name))]
                      ELSE [name |-> statement.name, module |-> <<"e", "n", "v">>,
                            base |-> name]
        IN [c EXCEPT !.module.imports = Append(@, import)]
    ELSE registered(statement, compileFunctionOrMethod(c, opts, statement))

\* a synthesizer that leaves out the call of the user's start function
maybeCompileStartFunctionNoCall(c) ==
    IF c.globalInitializers = <<>>
    THEN IF c.userStartFunction # "none"
         THEN [c EXCEPT !.module.start = c.userStartFunction]
         ELSE c
    ELSE [addFunction(c, "executeGlobalInitalizers", "v", <<>>, c.globalInitializers)
             EXCEPT !.module.start = "executeGlobalInitalizers"]

maybeCompileStartFunction(c) ==
    IF c.globalInitializers = <<>>
    THEN IF c.userStartFunction # "none"
         THEN [c EXCEPT !.module.start = c.userStartFunction]
         ELSE c
    ELSE LET hasStart == c.userStartFunction # "none"
             body == c.globalInitializers
                        \o (IF hasStart THEN <<Call("start", <<>>)>> ELSE <<>>)
             name == IF hasStart THEN "executeGlobalInitializersAndCallStart"
                                 ELSE "executeGlobalInitalizers"
         IN [addFunction(c, name, "v", <<>>, body) EXCEPT !.module.start = name]

\* a constructor or a method as compileFunctionOrMethod takes it: with the
\* name of its reflected function
MemberFunction(parentName, member) ==
    Statement(member.kind, functionName(parentName, member), voidType, FALSE, NoNode, 0,
              <<FALSE, FALSE, Bodies(member) # {}, ~isStatic(member)>>,
              IF Bodies(member) = {} THEN <<>>
              ELSE member.children[CHOOSE i \in Bodies(member) : TRUE].children)

\* compileClass: the loop over the members
RECURSIVE compileMembers(_, _, _, _)
compileMembers(c, opts, parentName, members) ==
    IF members = <<>> \/ c.thrown THEN c
    ELSE compileMembers(
            IF members[1].kind \in {"Constructor", "MethodDeclaration"}
            THEN compileFunctionOrMethod(c, opts, MemberFunction(parentName, members[1]))
            ELSE c,
            opts, parentName, Tail(members))

compileClass(c, opts, statement) == compileMembers(c, opts, statement.name, statement.body)

RECURSIVE compileStatementsOfFile(_, _, _)
compileStatementsOfFile(c, opts, statements) ==
    IF statements = <<>> \/ c.thrown THEN c
    ELSE compileStatementsOfFile(
            CASE statements[1].kind = "FunctionDeclaration" ->
                    compileFunction(c, opts, statements[1])
              [] statements[1].kind = "ClassDeclaration" ->
                    compileClass(c, opts, statements[1])
              [] OTHER -> c,
            opts, Tail(statements))

compile(c, opts, statements) ==
    LET compiled == compileStatementsOfFile(c, opts, statements)
    IN IF compiled.thrown THEN compiled ELSE maybeCompileStartFunction(compiled)

(***************************************************************************)
(* Spec: Compiler.compileProgram(program, options)                          *)
(***************************************************************************)
Init ==
    /\ FuncIdle /\ MangleIdle /\ ConvIdle /\ UnaryIdle
    /\ options \in CompilerOptions
    /\ program \in Programs
    /\ preEmitDiagnostics \in PreEmitDiagnostics
    /\ pc = "new"
    /\ phases = {}
    /\ diagnostics = <<>>
    /\ stderr = <<>>
    /\ module = NoModule
    /\ globalInitializers = <<>>
    /\ userStartFunction = "none"
    /\ uintptrType = uintptrType32
    /\ result = "none"
    /\ globals = <<>> /\ functions = <<>> /\ classes = <<>> /\ enums = <<>>

\* compileProgram is called for one of the given programs
InitWith(programs) ==
    /\ FuncIdle /\ MangleIdle /\ ConvIdle /\ UnaryIdle
    /\ options \in CompilerOptions
    /\ program \in programs
    /\ preEmitDiagnostics \in PreEmitDiagnostics
    /\ pc = "new"
    /\ phases = {}
    /\ diagnostics = <<>>
    /\ stderr = <<>>
    /\ module = NoModule
    /\ globalInitializers = <<>>
    /\ userStartFunction = "none"
    /\ uintptrType = uintptrType32
    /\ result = "none"
    /\ globals = <<>> /\ functions = <<>> /\ classes = <<>> /\ enums = <<>>

\* the state of the compiler that the passes work on
Compiler ==
    [diagnostics |-> diagnostics, stderr |-> stderr, module |-> module,
     globalInitializers |-> globalInitializers, userStartFunction |-> userStartFunction,
     globals |-> globals, functions |-> functions, classes |-> classes, enums |-> enums,
     thrown |-> FALSE]

Becomes(c) ==
    /\ diagnostics' = c.diagnostics
    /\ stderr' = c.stderr
    /\ module' = c.module
    /\ globalInitializers' = c.globalInitializers
    /\ userStartFunction' = c.userStartFunction
    /\ globals' = c.globals
    /\ functions' = c.functions
    /\ classes' = c.classes
    /\ enums' = c.enums

\* the test of compileProgram's loops over the diagnostics
isError(diagnostic) == diagnostic.category = "Error"
\* a loop that looks at the first diagnostic only
anyErrorFirstOnly(diags) == diags # <<>> /\ isError(diags[1])
anyError(diags) == \E i \in 1..Len(diags) : isError(diags[i])

\* process.stderr.write of the time a pass took
Took(pass) == Diagnostic("none", pass \o " took", "")

\* new Compiler(program, options)
Construct ==
    /\ pc = "new"
    /\ IF unsupportedUintptrSize(options)
       THEN /\ pc' = "thrown"
            /\ UNCHANGED <<module, uintptrType>>
       ELSE /\ pc' = "preEmit"
            /\ module' = IF options.noLib THEN NoModule ELSE MallocModule
            /\ uintptrType' = IF uintptrSize(options) = 4 THEN uintptrType32
                                                          ELSE uintptrType64
    /\ UNCHANGED <<options, program, preEmitDiagnostics, phases, diagnostics, stderr,
                   globalInitializers, userStartFunction, result, reflectionVars>>
    /\ UNCHANGED <<funcVars, mangleVars, convVars, unaryVars>>

\* the loop over typescript.getPreEmitDiagnostics: each diagnostic is printed,
\* and the first error returns null
PreEmit ==
    /\ pc = "preEmit"
    /\ LET errors == {i \in 1..Len(preEmitDiagnostics) : isError(preEmitDiagnostics[i])}
           last == IF errors = {} THEN Len(preEmitDiagnostics)
                   ELSE CHOOSE i \in errors : \A j \in errors : i <= j
       IN /\ stderr' = stderr \o SubSeq(preEmitDiagnostics, 1, last)
          /\ IF errors = {}
             THEN pc' = "initialize" /\ result' = result
             ELSE pc' = "returned" /\ result' = "null"
    /\ phases' = phases \cup {"preEmit"}
    /\ UNCHANGED <<options, program, preEmitDiagnostics, diagnostics, module,
                   globalInitializers, userStartFunction, uintptrType, reflectionVars>>
    /\ UNCHANGED <<funcVars, mangleVars, convVars, unaryVars>>

\* compiler.initialize() and the report of the time it took
Initialize ==
    /\ pc = "initialize"
    /\ LET c == initialize(Compiler, options, uintptrType, program)
       IN IF c.thrown
          THEN pc' = "thrown" /\ Becomes(c)
          ELSE /\ pc' = "initialized"
               /\ Becomes([c EXCEPT !.stderr =
                              @ \o (IF options.silent THEN <<>> ELSE <<Took("initialization")>>)])
    /\ phases' = phases \cup {"initialize"}
    /\ UNCHANGED <<options, program, preEmitDiagnostics, uintptrType, result>>
    /\ UNCHANGED <<funcVars, mangleVars, convVars, unaryVars>>

\* "bail out if there were initialization errors"
BailOutAfterInitialize ==
    /\ pc = "initialized"
    /\ IF anyError(diagnostics)
       THEN pc' = "returned" /\ result' = "null"
       ELSE pc' = "compile" /\ result' = result
    /\ UNCHANGED <<options, program, preEmitDiagnostics, phases, diagnostics, stderr, module,
                   globalInitializers, userStartFunction, uintptrType, reflectionVars>>
    /\ UNCHANGED <<funcVars, mangleVars, convVars, unaryVars>>

\* compiler.compile() and the report of the time it took
Compile ==
    /\ pc = "compile"
    /\ LET c == compile(Compiler, options, program)
       IN IF c.thrown
          THEN pc' = "thrown" /\ Becomes(c)
          ELSE /\ pc' = "compiled"
               /\ Becomes([c EXCEPT !.stderr =
                              @ \o (IF options.silent THEN <<>> ELSE <<Took("compilation")>>)])
    /\ phases' = phases \cup {"compile"}
    /\ UNCHANGED <<options, program, preEmitDiagnostics, uintptrType, result>>
    /\ UNCHANGED <<funcVars, mangleVars, convVars, unaryVars>>

\* "bail out if there were compilation errors", else return compiler.module
Return ==
    /\ pc = "compiled"
    /\ pc' = "returned"
    /\ result' = IF anyError(diagnostics) THEN "null" ELSE "module"
    /\ UNCHANGED <<options, program, preEmitDiagnostics, phases, diagnostics, stderr, module,
                   globalInitializers, userStartFunction, uintptrType, reflectionVars>>
    /\ UNCHANGED <<funcVars, mangleVars, convVars, unaryVars>>

Next ==
    \/ Construct
    \/ PreEmit
    \/ Initialize
    \/ BailOutAfterInitialize
    \/ Compile
    \/ Return

Spec == Init /\ [][Next]_vars

(***************************************************************************)
(* Properties of compileProgram                                             *)
(***************************************************************************)
ExistsError(diags) == \E i \in DOMAIN diags : diags[i].category = "Error"
Range(f) == {f[i] : i \in DOMAIN f}
AfterInitialize == pc = "initialized"
AfterCompile == pc = "compiled"

\* C1: compileProgram returns null whenever an Error diagnostic exists among
\* the pre-emit diagnostics, after initialize or after compile, and the module
\* otherwise; initialize runs only if pre-emit reported no error and compile
\* runs only if initialize recorded no error
C1_BailOut ==
    /\ [](pc = "returned" =>
            /\ result \in {"null", "module"}
            /\ result = "null" <=>
                  (ExistsError(preEmitDiagnostics) \/ ExistsError(diagnostics)))
    /\ []("initialize" \in phases => ~ExistsError(preEmitDiagnostics))
    /\ [][("compile" \notin phases /\ "compile" \in phases')
             => ("initialize" \in phases /\ ~ExistsError(diagnostics))]_vars

\* an error recorded by compile made compileProgram return null
C1_Witness ==
    /\ pc = "returned" /\ result = "null"
    /\ "compile" \in phases
    /\ ~ExistsError(preEmitDiagnostics)

\* the pre-emit diagnostics up to the first error, which ends the compilation
Surfaced ==
    SubSeq(preEmitDiagnostics, 1,
           IF ExistsError(preEmitDiagnostics)
           THEN CHOOSE i \in DOMAIN preEmitDiagnostics :
                   /\ preEmitDiagnostics[i].category = "Error"
                   /\ ~ExistsError(SubSeq(preEmitDiagnostics, 1, i - 1))
           ELSE Len(preEmitDiagnostics))

\* C2: with silent=true no diagnostic of any phase is printed to stderr while
\* every diagnostic is added to the compiler's collection; with silent=false
\* each collected diagnostic is also printed
C2_Silent ==
    /\ options.silent =>
          /\ \A i \in DOMAIN stderr : stderr[i].category = "none"
          /\ "preEmit" \in phases => Range(Surfaced) \subseteq Range(diagnostics)
    /\ ~options.silent => Range(diagnostics) \subseteq Range(stderr)

\* C3: a uintptrSize option other than 4 or 8 fails the construction; without
\* the option the pointer size is 4; uintptrType is the 32-bit pointer type
\* iff the pointer size is 4, else the 64-bit one
ConstructionFailed == pc = "thrown" /\ phases = {}
C3_UintptrSize ==
    pc # "new" =>
        /\ (options.hasUintptrSize /\ options.uintptrSize \notin {4, 8})
              => ConstructionFailed
        /\ ~options.hasUintptrSize => uintptrSize(options) = 4
        /\ ~ConstructionFailed =>
              uintptrType = IF uintptrSize(options) = 4 THEN uintptrType32
                                                        ELSE uintptrType64

\* the body of the module's start function
StartFunctions == {f \in Range(module.functions) : f.name = module.start}
IsMspInitializer(statement) ==
    /\ statement.op = "set_global" /\ statement.name = ".msp"
    /\ statement.args[1].op = "call" /\ statement.args[1].name = "mspace_init"

\* C4: the global .msp is added iff noLib is false, and then the statement
\* that stores mspace_init(...) into .msp precedes every other global
\* initializer in the body of the start function
C4_MspFirst ==
    /\ AfterInitialize =>
          ((\E i \in DOMAIN module.globals : module.globals[i].name = ".msp")
              <=> ~options.noLib)
    /\ (AfterCompile /\ ~options.noLib) =>
          \E f \in StartFunctions :
              \E i \in DOMAIN f.body :
                  /\ IsMspInitializer(f.body[i])
                  /\ \A j \in DOMAIN f.body :
                        (f.body[j].op = "set_global" /\ j # i) => i < j

\* a function that compileFunction takes as the user's start function
IsUserStart(statement) ==
    /\ statement.kind = "FunctionDeclaration" /\ statement.name = "start"
    /\ ~statement.isImport
    /\ statement.parameters = 0 /\ statement.type = voidType
UserStartExists == \E i \in DOMAIN program : IsUserStart(program[i])

\* C5: after compile, if an initializer was registered the start function is
\* a synthesized void function whose body is the registered initializers in
\* order followed, iff a user start exists, by one call to it; without
\* initializers a user start is the start function itself; with neither there
\* is no start function
C5_StartFunction ==
    AfterCompile =>
        IF globalInitializers # <<>>
        THEN /\ module.start \notin {"none", "start"}
             /\ \E f \in StartFunctions :
                   /\ f.signature = "v"
                   /\ f.body = globalInitializers
                                 \o (IF UserStartExists THEN <<Call("start", <<>>)>>
                                                        ELSE <<>>)
        ELSE module.start = IF UserStartExists THEN "start" ELSE "none"

\* initializers of user globals and a user start function were compiled
C5_Witness ==
    /\ AfterCompile /\ UserStartExists
    /\ Len(globalInitializers) >= 2
    /\ module.start = "executeGlobalInitializersAndCallStart"

\* C6: after initialize a non-freestanding module exports malloc and free and
\* none of mspace_init, mspace_malloc, mspace_free; a freestanding module has
\* none of the wrappers, exports or .msp and declares its own memory
AllocatorNames == {"malloc", "free", "mspace_init", "mspace_malloc", "mspace_free"}
C6_Allocator ==
    AfterInitialize =>
        IF ~options.noLib
        THEN /\ {"malloc", "free"} \subseteq module.exports
             /\ module.exports \cap {"mspace_init", "mspace_malloc", "mspace_free"} = {}
             /\ \A n \in {"malloc", "free"} : \E f \in Range(module.functions) : f.name = n
        ELSE /\ module.exports \cap AllocatorNames = {}
             /\ \A f \in Range(module.functions) : f.name \notin AllocatorNames
             /\ \A i \in DOMAIN module.globals : module.globals[i].name # ".msp"
             /\ module.memory = "own"

\* the library was initialized after user globals
C6_Witness ==
    /\ AfterInitialize /\ ~options.noLib
    /\ Len(module.globals) >= 2
    /\ "malloc" \in module.exports

(***************************************************************************)
(* SpecImports: compileProgram for programs of import functions             *)
(***************************************************************************)
ImportStatements ==
    {FunctionDeclaration("a$b", 0, voidType, FALSE, TRUE, FALSE, <<>>),
     FunctionDeclaration("a$b$a", 0, voidType, FALSE, TRUE, FALSE, <<>>),
     FunctionDeclaration("$b", 0, voidType, FALSE, TRUE, FALSE, <<>>),
     FunctionDeclaration("ab", 0, voidType, TRUE, TRUE, FALSE, <<>>),   \* export declare
     FunctionDeclaration("f", 0, voidType, TRUE, FALSE, TRUE, <<EmptyStatement>>)}

ImportPrograms == SeqsUpTo(ImportStatements, MaxStatements)
InitImports == InitWith(ImportPrograms)
SpecImports == InitImports /\ [][Next]_vars

ImportFunctions ==
    {s \in Range(program) : s.kind = "FunctionDeclaration" /\ s.isImport}
ImportsOf(s) == {i \in Range(module.imports) : i.name = s.name}
Dollars(name) == {i \in DOMAIN name : name[i] = "$"}
FirstDollar(name) == CHOOSE i \in Dollars(name) : \A j \in Dollars(name) : i <= j
NeverCompiledNorExported(s) ==
    /\ \A f \in Range(module.functions) : f.name # s.name
    /\ s.name \notin module.exports

\* C13: an import function whose name contains `$` is imported from the
\* module named by the part before the `$` with the part after it as base, one
\* without `$` from module `env` with the full name as base; an import
\* function is never compiled to a body nor exported
C13_ImportSplit ==
    AfterCompile =>
        \A s \in ImportFunctions :
            LET name == Characters(s.name)
            IN /\ ImportsOf(s) # {}
               /\ \A i \in ImportsOf(s) :
                     IF Dollars(name) # {}
                     THEN /\ i.module = SubSeq(name, 1, FirstDollar(name) - 1)
                          /\ i.base = SubSeq(name, FirstDollar(name) + 1, Len(name))
                     ELSE i.module = <<"e", "n", "v">> /\ i.base = name
               /\ NeverCompiledNorExported(s)

\* C13 as amended: the name is split at its first `$` when that `$` is not
\* its first character; a name without `$`, or one that starts with `$`, is
\* imported from `env` with the full name as base
C13_ImportSplitAmended ==
    AfterCompile =>
        \A s \in ImportFunctions :
            LET name == Characters(s.name)
            IN /\ ImportsOf(s) # {}
               /\ \A i \in ImportsOf(s) :
                     IF Dollars(name) # {} /\ FirstDollar(name) > 1
                     THEN /\ i.module = SubSeq(name, 1, FirstDollar(name) - 1)
                          /\ i.base = SubSeq(name, FirstDollar(name) + 1, Len(name))
                     ELSE i.module = <<"e", "n", "v">> /\ i.base = name
               /\ NeverCompiledNorExported(s)

\* an exported import function and one whose name starts with `$` were compiled
C13_Witness ==
    /\ AfterCompile
    /\ \E s \in ImportFunctions : s.isExport /\ ImportsOf(s) # {}
    /\ \E i \in Range(module.imports) : i.name = "$b" /\ i.module = <<"e", "n", "v">>

(***************************************************************************)
(* SpecWhile: compileProgram for programs of one global and one function    *)
(* whose body is made of while loops                                        *)
(***************************************************************************)
\* the conditions of the loops: true, the global g, the parameter a
Conditions == {TrueKeyword, Identifier("g"), Identifier("a")}

\* the statements with loops nested up to the given depth
RECURSIVE WhileStatements(_)
WhileStatements(depth) ==
    IF depth = 0 THEN {EmptyStatement}
    ELSE {EmptyStatement}
            \cup {WhileStatement(c, s) : c \in Conditions, s \in WhileStatements(depth - 1)}

\* let g: int = 1; export function f(a: int): void { ... }
WhilePrograms ==
    {<<VariableStatement("g", intType, TRUE, NumericLiteral),
       FunctionDeclaration("f", 1, voidType, TRUE, FALSE, TRUE, body)>> :
        body \in SeqsUpTo(WhileStatements(MaxDepth), 2)}
InitWhile == InitWith(WhilePrograms)
SpecWhile == InitWhile /\ [][Next]_vars

\* the statements of the body of f and what they were lowered to
SourceBody == program[2].body
CompiledBodies == {f.body : f \in {h \in Range(module.functions) : h.name = "f"}}
IsWhile(node) == node.kind = "WhileStatement"
FirstWhile(body) == CHOOSE i \in DOMAIN body : IsWhile(body[i]) /\ \A j \in 1..(i - 1) : ~IsWhile(body[j])

\* block $break { loop $continue { if (condition) { statement; br $continue } } }
IsLoweredWhile(expr, label) ==
    /\ expr.op = "block" /\ expr.name = "break$" \o label /\ Len(expr.args) = 1
    /\ LET loop == expr.args[1]
       IN /\ loop.op = "loop" /\ loop.name = "continue$" \o label /\ Len(loop.args) = 1
          /\ LET if == loop.args[1]
             IN /\ if.op = "if" /\ Len(if.args) = 2
                /\ if.args[1].op \in {"const", "get_local", "get_global", "unreachable"}
                /\ if.args[2].op = "block" /\ Len(if.args[2].args) = 2
                /\ if.args[2].args[2] = Break("continue$" \o label)

\* C14: the first outermost while loop of a function lowers to a block
\* labelled break 1.0 that contains a loop labelled continue 1.0, whose body is
\* an `if` on the condition containing the loop body followed by a branch to
\* continue 1.0
C14_WhileLabel ==
    (AfterCompile /\ \E i \in DOMAIN SourceBody : IsWhile(SourceBody[i]))
    => \A body \in CompiledBodies : IsLoweredWhile(body[FirstWhile(SourceBody)], "1.0")

\* C14 as amended: the labels of the first outermost while loop are break 1.1
\* and continue 1.1
C14_WhileLabelAmended ==
    (AfterCompile /\ \E i \in DOMAIN SourceBody : IsWhile(SourceBody[i]))
    => /\ CompiledBodies # {}
       /\ \A body \in CompiledBodies : IsLoweredWhile(body[FirstWhile(SourceBody)], "1.1")

\* the first outermost loop follows another statement and contains a loop
C14_Witness ==
    /\ AfterCompile
    /\ Len(SourceBody) = 2 /\ ~IsWhile(SourceBody[1]) /\ IsWhile(SourceBody[2])
    /\ \E body \in CompiledBodies :
          /\ IsLoweredWhile(body[2], "1.1")
          /\ IsLoweredWhile(body[2].args[1].args[1].args[2].args[1], "1.2")

\* the condition of the lowered while loop expr
ConditionOf(expr) == expr.args[1].args[1].args[1]
NamesGlobal(node) ==
    /\ node.kind = "Identifier"
    /\ \E i \in DOMAIN program :
          program[i].kind = "VariableStatement" /\ program[i].name = node.text
    /\ node.text \notin {p.name : p \in Range(ParametersOf(program[2]))}

\* C15: an identifier in a function body that names a module-level global and
\* no local lowers to a get_global of that global and records no diagnostic
C15_GetGlobal ==
    AfterCompile =>
        \A i \in DOMAIN SourceBody :
            (IsWhile(SourceBody[i]) /\ NamesGlobal(SourceBody[i].children[1]))
            => /\ \A body \in CompiledBodies :
                     ConditionOf(body[i]) = GetGlobal(SourceBody[i].children[1].text, "i32")
               /\ \A d \in Range(diagnostics) : d.message # "Undefined local variable"

(***************************************************************************)
(* SpecGlobals: compileProgram for programs of top-level variable           *)
(* declarations with distinct names                                         *)
(***************************************************************************)
GlobalStatements ==
    {VariableStatement("g", intType, TRUE, NumericLiteral),       \* let g: int = 1
     VariableStatement("n", intType, FALSE, NumericLiteral),      \* const n: int = 1
     VariableStatement("z", intType, TRUE, NoNode),               \* let z: int
     VariableStatement("h", intType, TRUE, TrueKeyword),          \* let h: int = true
     VariableStatement("p", uintType, TRUE, NullKeyword),         \* let p: uint = null
     VariableStatement("k", intType, FALSE, TrueKeyword),         \* const k: int = true
     VariableStatement("i", intType, TRUE, Identifier("g"))}      \* let i: int = g

GlobalPrograms ==
    {p \in SeqsUpTo(GlobalStatements, MaxStatements) :
        \A i, j \in DOMAIN p : i # j => p[i].name # p[j].name}
InitGlobals == InitWith(GlobalPrograms)
SpecGlobals == InitGlobals /\ [][Next]_vars

IRGlobals(name) == {g \in Range(module.globals) : g.name = name}
DeferredInitializers(name) ==
    {i \in DOMAIN globalInitializers :
        globalInitializers[i].op = "set_global" /\ globalInitializers[i].name = name}
HasLiteral(s) == s.initializer.kind = "NumericLiteral"
IsDeferred(s) == s.initializer # NoNode /\ ~HasLiteral(s) /\ s.mutable

\* C16: once initialize has run, a declaration with a numeric literal has an
\* IR global with that constant and no deferred initializer; a mutable one
\* with another initializer has a zero-initialized IR global and exactly one
\* deferred initializer, in declaration order; a const one with another
\* initializer has recorded 'Unsupported global constant initializer' and no
\* deferred initializer; one without initializer has a zero-initialized global
C16_Globals ==
    "initialize" \in phases =>
        /\ \A s \in Range(program) :
              CASE HasLiteral(s) ->
                      /\ \E g \in IRGlobals(s.name) : g.init = "literal"
                      /\ DeferredInitializers(s.name) = {}
                [] IsDeferred(s) ->
                      /\ \E g \in IRGlobals(s.name) : g.init = "zero"
                      /\ Cardinality(DeferredInitializers(s.name)) = 1
                [] s.initializer = NoNode ->
                      \E g \in IRGlobals(s.name) : g.init = "zero"
                [] OTHER ->
                      /\ \E d \in Range(diagnostics) :
                            d.message = "Unsupported global constant initializer"
                      /\ DeferredInitializers(s.name) = {}
        /\ \A i, j \in DOMAIN program :
              (i < j /\ IsDeferred(program[i]) /\ IsDeferred(program[j]))
              => \A a \in DeferredInitializers(program[i].name) :
                    \A b \in DeferredInitializers(program[j].name) : a < b

\* a function-like declaration without a body, which compile() throws on
MissingBody(s) == s.kind = "FunctionDeclaration" /\ ~s.isImport /\ ~s.hasBody
Unsupported(message, arg1) ==
    \E d \in Range(diagnostics) :
        d.category = "Error" /\ d.message = message /\ d.arg1 = arg1

\* C18: initialize and compile throw only for an unbalanced break context or
\* a function-like declaration without a body; every other unsupported or
\* unresolvable node (also an identifier that is not a local, in a function
\* body or in a deferred global initializer) records an Error diagnostic,
\* yields an `unreachable` placeholder and lowering continues
C18_ThrowsOnly ==
    /\ (pc = "thrown" /\ ~ConstructionFailed) =>
          \E s \in Range(program) : MissingBody(s)
    /\ AfterInitialize =>
          \A s \in Range(program) :
              /\ s.kind = "ExpressionStatement" =>
                    Unsupported("Unsupported top-level statement", "ExpressionStatement")
              /\ (IsDeferred(s) /\ s.initializer.kind = "Identifier") =>
                    /\ Unsupported("Undefined local variable", s.initializer.text)
                    /\ \E i \in DeferredInitializers(s.name) :
                          globalInitializers[i].args[1] = Unreachable
    /\ AfterCompile =>
          \A s \in Range(program) :
              (s.kind = "FunctionDeclaration" /\ s.body = <<DebuggerStatement>>) =>
                  /\ Unsupported("Unsupported statement node", "DebuggerStatement")
                  /\ \E f \in Range(module.functions) :
                        f.name = s.name /\ f.body = <<Unreachable>>

(***************************************************************************)
(* SpecClasses: compileProgram for programs of globals, functions, classes  *)
(* and enums with distinct names                                            *)
(***************************************************************************)
ClassStatements ==
    {VariableStatement("g", intType, TRUE, NumericLiteral),
     FunctionDeclaration("f", 0, voidType, TRUE, FALSE, TRUE, <<EmptyStatement>>),
     ClassDeclaration("C", <<PropertyDeclaration("x")>>),
     ClassDeclaration("D", <<Constructor, MethodDeclaration("m", <<>>)>>),
     ClassDeclaration("E", <<MethodDeclaration("m", <<StaticKeyword>>),
                             MethodDeclaration("m", <<>>)>>),
     EnumDeclaration("N", <<EnumMember("A")>>)}

ClassPrograms ==
    {p \in SeqsUpTo(ClassStatements, MaxStatements) :
        \A i, j \in DOMAIN p : i # j => p[i].name # p[j].name}
InitClasses == InitWith(ClassPrograms)
SpecClasses == InitClasses /\ [][Next]_vars

\* the keys of the module-level maps, each with the map it is a key of
Keys ==
    {<<"globals", k>> : k \in DOMAIN globals} \cup {<<"functions", k>> : k \in DOMAIN functions}
        \cup {<<"classes", k>> : k \in DOMAIN classes} \cup {<<"enums", k>> : k \in DOMAIN enums}

\* the functions, constructors and methods that program declares
DeclaredFunctions ==
    {s.name : s \in {t \in Range(program) : t.kind = "FunctionDeclaration"}}
        \cup UNION {{functionName(s.name, m) :
                        m \in {n \in Range(s.body) :
                                 n.kind \in {"Constructor", "MethodDeclaration"}}} :
                    s \in {t \in Range(program) : t.kind = "ClassDeclaration"}}

\* C17: after initialize every mangled name is a key of at most one of the
\* maps globals, functions, classes and enums, and every declaration is stored
\* under a key of its own
C17_OneEntry ==
    AfterInitialize =>
        /\ \A a, b \in Keys : a[2] = b[2] => a = b
        /\ \A s \in Range(program) :
              /\ s.kind = "VariableStatement" => globals[s.name].kind = "Variable"
              /\ s.kind = "ClassDeclaration" => classes[s.name].kind = "Class"
        /\ DOMAIN functions = DeclaredFunctions

(***************************************************************************)
(* SpecFunction: Compiler.compileFunctionOrMethod and the operations the    *)
(* statement lowerers call while the body is compiled: onVariable,          *)
(* enterBreakContext and leaveBreakContext                                  *)
(***************************************************************************)
MaxFunctions == 2       \* functions compiled one after the other
MaxContexts == 2        \* outermost break contexts of a function

Parameters == {[name |-> "a", type |-> intType], [name |-> "b", type |-> longType]}
\* the variable statements of a body: let a: int, let x: long
Declarations == {[name |-> "a", type |-> intType], [name |-> "x", type |-> longType]}
ParameterLists ==
    {p \in SeqsUpTo(Parameters, MaxParameters) :
        \A i, j \in DOMAIN p : i # j => p[i].name # p[j].name}
Functions ==
    [name : {"f"}, isInstance : BOOLEAN, hasBody : BOOLEAN, parameters : ParameterLists]

InitFunction ==
    /\ DriverIdle /\ MangleIdle /\ ConvIdle /\ UnaryIdle
    /\ func \in Functions
    /\ fpc = "idle"
    /\ currentLocals = <<>>
    /\ localIndex = 0
    /\ additionalLocals = <<>>
    /\ declared = <<>>
    /\ currentBreakContextNumber = 0
    /\ currentBreakContextDepth = 0
    /\ openLabels = <<>>
    /\ outermostLabels = <<>>

\* a compileFunctionOrMethod that keeps the locals and the number of the
\* break context of the function compiled before
EnterFunctionKeeping ==
    /\ fpc \in {"idle", "done"}
    /\ Len(module.functions) < MaxFunctions
    /\ \E f \in Functions :
          /\ fpc = "idle" => f = func
          /\ func' = f
          /\ IF ~f.hasBody
             THEN /\ fpc' = "thrown"
                  /\ UNCHANGED <<currentLocals, localIndex, additionalLocals, declared,
                                 currentBreakContextNumber, currentBreakContextDepth,
                                 labelVars>>
             ELSE /\ fpc' = "body"
                  /\ currentBreakContextDepth' = 0
                  /\ openLabels' = <<>>
                  /\ outermostLabels' = <<>>
                  /\ currentLocals' = withLocals(currentLocals, localsOf(f))
                  /\ localIndex' = Len(localsOf(f))
                  /\ additionalLocals' = <<>>
                  /\ declared' = <<>>
                  /\ UNCHANGED currentBreakContextNumber
    /\ UNCHANGED <<driverVars, mangleVars, convVars, unaryVars>>

\* compileFunctionOrMethod up to the loop over the statements of the body
EnterFunction ==
    /\ fpc \in {"idle", "done"}
    /\ Len(module.functions) < MaxFunctions
    /\ \E f \in Functions :
          /\ fpc = "idle" => f = func
          /\ func' = f
          /\ IF ~f.hasBody
             THEN /\ fpc' = "thrown"                \* Error("missing body")
                  /\ UNCHANGED <<currentLocals, localIndex, additionalLocals, declared,
                                 currentBreakContextNumber, currentBreakContextDepth,
                                 labelVars>>
             ELSE /\ fpc' = "body"
                  /\ currentBreakContextNumber' = 0
                  /\ currentBreakContextDepth' = 0
                  /\ openLabels' = <<>>
                  /\ outermostLabels' = <<>>
                  /\ currentLocals' = withLocals(<<>>, localsOf(f))
                  /\ localIndex' = Len(localsOf(f))
                  /\ additionalLocals' = <<>>
                  /\ declared' = <<>>
    /\ UNCHANGED <<driverVars, mangleVars, convVars, unaryVars>>

\* alternative names that are counted from 2
alternativeNameFromTwo(originalName, k) == originalName \o "." \o ToString(k + 1)
\* the name onVariable registers the variable under
alternativeName(originalName, k) == originalName \o "." \o ToString(k)
\* a registration under the original name, whatever is registered already
uniqueNameShadowing(originalName, locals) == originalName
uniqueName(originalName, locals) ==
    IF originalName \notin DOMAIN locals THEN originalName
    ELSE LET free == {k \in 1..(Cardinality(DOMAIN locals) + 1) :
                         alternativeName(originalName, k) \notin DOMAIN locals}
         IN alternativeName(originalName, CHOOSE k \in free : \A m \in free : k <= m)

\* onVariable(originalName, type), which returns the slot of the variable
onVariable(originalName, type) ==
    /\ fpc = "body"
    /\ Len(declared) < MaxVariables
    /\ LET name == uniqueName(originalName, currentLocals)
       IN currentLocals' = (name :> Variable(name, type, localIndex)) @@ currentLocals
    /\ additionalLocals' = Append(additionalLocals, typeOf(type, uintptrSize(options)))
    /\ declared' = Append(declared, [name |-> originalName, type |-> type,
                                     slot |-> localIndex])
    /\ localIndex' = localIndex + 1
    /\ UNCHANGED <<func, fpc, currentBreakContextNumber, currentBreakContextDepth,
                   labelVars>>
    /\ UNCHANGED <<driverVars, mangleVars, convVars, unaryVars>>

\* an enterBreakContext that does not count the outermost contexts
enterBreakContextUncounted ==
    /\ fpc = "body"
    /\ currentBreakContextDepth < MaxDepth
    /\ Len(outermostLabels) < MaxContexts
    /\ currentBreakContextNumber' = currentBreakContextNumber
    /\ currentBreakContextDepth' = currentBreakContextDepth + 1
    /\ LET label == currentBreakLabel(currentBreakContextNumber,
                                      currentBreakContextDepth + 1)
       IN /\ openLabels' = Append(openLabels, label)
          /\ outermostLabels' = IF currentBreakContextDepth = 0
                                THEN Append(outermostLabels, label) ELSE outermostLabels
    /\ UNCHANGED <<func, fpc, currentLocals, localIndex, additionalLocals, declared>>
    /\ UNCHANGED <<driverVars, mangleVars, convVars, unaryVars>>

\* enterBreakContext(), whose result the calling lowerer keeps as its label
enterBreakContext ==
    /\ fpc = "body"
    /\ currentBreakContextDepth < MaxDepth
    /\ currentBreakContextDepth = 0 => currentBreakContextNumber < MaxContexts
    /\ currentBreakContextNumber' =
          IF currentBreakContextDepth = 0 THEN currentBreakContextNumber + 1
                                          ELSE currentBreakContextNumber
    /\ currentBreakContextDepth' = currentBreakContextDepth + 1
    /\ LET label == currentBreakLabel(currentBreakContextNumber', currentBreakContextDepth')
       IN /\ openLabels' = Append(openLabels, label)
          /\ outermostLabels' = IF currentBreakContextDepth = 0
                                THEN Append(outermostLabels, label) ELSE outermostLabels
    /\ UNCHANGED <<func, fpc, currentLocals, localIndex, additionalLocals, declared>>
    /\ UNCHANGED <<driverVars, mangleVars, convVars, unaryVars>>

\* a leaveBreakContext without the test of the depth
leaveBreakContextUnchecked ==
    /\ fpc = "body"
    /\ currentBreakContextDepth > -2
    /\ currentBreakContextDepth' = currentBreakContextDepth - 1
    /\ openLabels' = SubSeq(openLabels, 1, Len(openLabels) - 1)
    /\ UNCHANGED <<func, fpc, currentLocals, localIndex, additionalLocals, declared,
                   currentBreakContextNumber, outermostLabels>>
    /\ UNCHANGED <<driverVars, mangleVars, convVars, unaryVars>>

\* leaveBreakContext(), after which the calling lowerer returns
leaveBreakContext ==
    /\ fpc = "body"
    /\ IF currentBreakContextDepth < 1
       THEN fpc' = "thrown" /\ UNCHANGED <<currentBreakContextDepth, openLabels>>
       ELSE /\ fpc' = fpc
            /\ currentBreakContextDepth' = currentBreakContextDepth - 1
            /\ openLabels' = SubSeq(openLabels, 1, Len(openLabels) - 1)
    /\ UNCHANGED <<func, currentLocals, localIndex, additionalLocals, declared,
                   currentBreakContextNumber, outermostLabels>>
    /\ UNCHANGED <<driverVars, mangleVars, convVars, unaryVars>>

\* the end of compileFunctionOrMethod: module.addFunction(func.name, ...)
LeaveFunction ==
    /\ fpc = "body"
    /\ fpc' = "done"
    /\ module' = addFunction([module |-> module], func.name, "", additionalLocals,
                             <<>>).module
    /\ UNCHANGED <<options, program, preEmitDiagnostics, pc, phases, diagnostics, stderr,
                   globalInitializers, userStartFunction, uintptrType, result,
                   reflectionVars>>
    /\ UNCHANGED <<func, currentLocals, localIndex, additionalLocals, declared,
                   currentBreakContextNumber, currentBreakContextDepth, labelVars>>
    /\ UNCHANGED <<mangleVars, convVars, unaryVars>>

NextFunction ==
    \/ EnterFunction
    \/ \E d \in Declarations : onVariable(d.name, d.type)
    \/ enterBreakContext
    \/ leaveBreakContext
    \/ LeaveFunction

SpecFunction == InitFunction /\ [][NextFunction]_vars

\* C10: while a function is compiled the slots are contiguous from 0 and none
\* is assigned twice: the pre-assigned locals (`this` in slot 0 of an instance
\* method, then the parameters) have slots 0..n-1, the k-th variable of the
\* body gets slot n+k-1, and the additional locals have one entry per variable
\* of the body, in slot order
C10_LocalSlots ==
    fpc \in {"body", "done"} =>
        LET n == Len(localsOf(func))
            slots == {currentLocals[name].index : name \in DOMAIN currentLocals}
        IN /\ \A i \in 1..n : currentLocals[localsOf(func)[i].name].index = i - 1
           /\ func.isInstance => currentLocals["this"].index = 0
           /\ \A k \in DOMAIN declared : declared[k].slot = n + k - 1
           /\ slots = 0..(n + Len(declared) - 1)
           /\ Cardinality(DOMAIN currentLocals) = n + Len(declared)
           /\ Len(additionalLocals) = Len(declared)
           /\ \A k \in DOMAIN declared :
                 /\ additionalLocals[k] = typeOf(declared[k].type, uintptrSize(options))
                 /\ \E name \in DOMAIN currentLocals :
                       /\ currentLocals[name].index = n + k - 1
                       /\ currentLocals[name].type = declared[k].type

\* an instance method with a parameter whose body declared variables, one of
\* them under the name of the parameter
C10_Witness ==
    /\ fpc = "done"
    /\ func.isInstance /\ Len(func.parameters) >= 1
    /\ Len(declared) >= 2
    /\ \E k \in DOMAIN declared : \E i \in DOMAIN func.parameters :
          declared[k].name = func.parameters[i].name

\* C19: the depth of the break context is never negative; leaveBreakContext at
\* depth 0 throws and leaves number and depth as they are, at depth >= 1 it
\* decreases the depth by one and leaves the number; enterBreakContext
\* increases the depth by one and the number by one iff the depth was 0
C19_BreakContext ==
    /\ [](currentBreakContextDepth >= 0)
    /\ [][leaveBreakContext =>
            IF currentBreakContextDepth = 0
            THEN /\ fpc' = "thrown"
                 /\ currentBreakContextDepth' = currentBreakContextDepth
                 /\ currentBreakContextNumber' = currentBreakContextNumber
            ELSE /\ fpc' = fpc
                 /\ currentBreakContextDepth' = currentBreakContextDepth - 1
                 /\ currentBreakContextNumber' = currentBreakContextNumber]_vars
    /\ [][enterBreakContext =>
            /\ currentBreakContextDepth' = currentBreakContextDepth + 1
            /\ currentBreakContextNumber' = currentBreakContextNumber
                  + (IF currentBreakContextDepth = 0 THEN 1 ELSE 0)]_vars

\* leaveBreakContext threw after a break context was entered and left
C19_Witness ==
    /\ fpc = "thrown" /\ func.hasBody
    /\ currentBreakContextDepth = 0
    /\ currentBreakContextNumber >= 1

Distinct(labels) == \A i, j \in DOMAIN labels : i # j => labels[i] # labels[j]

\* C20: while enterBreakContext and leaveBreakContext are called properly
\* nested within a function, the current break label is the label returned
\* when the innermost open context was entered, the labels of the open
\* contexts are pairwise distinct, and no two outermost contexts of the
\* function got the same label
C20_Labels ==
    fpc = "body" =>
        /\ Len(openLabels) = currentBreakContextDepth
        /\ openLabels # <<>> =>
              currentBreakLabel(currentBreakContextNumber, currentBreakContextDepth)
                 = openLabels[Len(openLabels)]
        /\ Distinct(openLabels)
        /\ Distinct(outermostLabels)

\* two contexts are open in the second outermost context of the function
C20_Witness ==
    /\ fpc = "body"
    /\ Len(openLabels) = 2 /\ Len(outermostLabels) = 2
    /\ openLabels[1] = outermostLabels[2]

\* the names of the pre-assigned locals of a function: `this` of an instance
\* method and the parameters
PreassignedNames(f) ==
    (IF f.isInstance THEN {"this"} ELSE {})
        \cup {f.parameters[i].name : i \in DOMAIN f.parameters}

\* C21: at the start of compiling a function the number and the depth of the
\* break context are 0 and currentLocals holds exactly the pre-assigned locals
\* of that function (`this` and the parameters, with their types), whatever
\* the functions compiled before left behind
C21_FreshPerFunction ==
    [][(EnterFunction /\ fpc' = "body") =>
          /\ currentBreakContextNumber' = 0
          /\ currentBreakContextDepth' = 0
          /\ DOMAIN currentLocals' = PreassignedNames(func')
          /\ \A i \in DOMAIN func'.parameters :
                currentLocals'[func'.parameters[i].name].type = func'.parameters[i].type
          /\ localIndex' = Cardinality(PreassignedNames(func'))]_vars

\* a second function is entered after a first one whose body declared
\* variables was added to the module
C21_Witness ==
    /\ fpc = "body" /\ declared = <<>>
    /\ Len(module.functions) = 1
    /\ module.functions[1].locals # <<>>
    /\ currentBreakContextNumber = 0 /\ currentBreakContextDepth = 0

\* the first name of originalName.from, originalName.(from + 1), ... that is
\* no key of locals
FirstUnused(originalName, locals, from) ==
    LET unused == {k \in from..(from + Cardinality(DOMAIN locals)) :
                      (originalName \o "." \o ToString(k)) \notin DOMAIN locals}
    IN originalName \o "." \o ToString(CHOOSE k \in unused : \A m \in unused : k <= m)

\* what a call of onVariable with a name that is a key of currentLocals
\* does, if the alternative names are counted from `from`: one key is added,
\* the first unused alternative name, and no entry that was there is changed
RegistersAlternative(from) ==
    \A d \in Declarations :
        (onVariable(d.name, d.type) /\ d.name \in DOMAIN currentLocals) =>
            /\ DOMAIN currentLocals' =
                  DOMAIN currentLocals \cup {FirstUnused(d.name, currentLocals, from)}
            /\ FirstUnused(d.name, currentLocals, from) \notin DOMAIN currentLocals
            /\ currentLocals'[FirstUnused(d.name, currentLocals, from)].type = d.type
            /\ \A n \in DOMAIN currentLocals : currentLocals'[n] = currentLocals[n]

\* every entry of currentLocals is registered under its own name, and there is
\* one entry per pre-assigned local and per declared variable
UniqueNames ==
    fpc \in {"body", "done"} =>
        /\ \A n \in DOMAIN currentLocals : currentLocals[n].name = n
        /\ Cardinality(DOMAIN currentLocals) = Len(localsOf(func)) + Len(declared)

\* C22 as stated: onVariable with a name that is a key of currentLocals
\* registers the variable under the first unused name of name.2, name.3, ...,
\* leaves the existing entries unchanged, and the names stay unique
C22_Alternative ==
    /\ [][RegistersAlternative(2)]_vars
    /\ []UniqueNames

\* C22 (amended): onVariable with a name that is a key of currentLocals
\* registers the variable under the first unused name of name.1, name.2, ...,
\* leaves the existing entries unchanged, and the names stay unique
C22_AlternativeAmended ==
    /\ [][RegistersAlternative(1)]_vars
    /\ []UniqueNames

\* the name of a parameter was declared twice in the body
C22_Witness ==
    /\ fpc = "body"
    /\ Len(declared) = 2 /\ declared[1].name = declared[2].name
    /\ \E i \in DOMAIN func.parameters : func.parameters[i].name = declared[1].name
    /\ {"a", "a.1", "a.2"} \subseteq DOMAIN currentLocals

(***************************************************************************)
(* SpecUnary: compiler.compileExpression(node, contextualType) of a prefix  *)
(* unary expression, in a method whose parameter a has slot 1               *)
(***************************************************************************)
UnaryOperators ==
    {"ExclamationToken", "PlusToken", "MinusToken", "TildeToken", "PlusPlusToken",
     "MinusMinusToken"}

\* a is the parameter, u is no local, and a string literal is no expression
\* that compileExpression supports
UnaryOperands ==
    {Identifier("a"), Identifier("u"), TrueKeyword, NullKeyword, StringLiteral,
     PrefixUnaryExpression("PlusPlusToken", Identifier("u")),
     PrefixUnaryExpression("TildeToken", Identifier("a"))}

UnaryInputs ==
    UNION {[node : {PrefixUnaryExpression(o, e) : o \in UnaryOperators, e \in UnaryOperands},
            contextualType : TypesOf(u) \cup {voidType},
            locals : {withLocals(<<>>, localsOf([isInstance |-> TRUE,
                                                  parameters |-> <<[name |-> "a", type |-> t]>>]))
                         : t \in TypesOf(u)},
            uintptrSize : {u}] : u \in {4, 8}}

InitUnary ==
    /\ DriverIdle /\ FuncIdle /\ MangleIdle /\ ConvIdle
    /\ unaryArgs \in UnaryInputs
    /\ unaryRet = [stage |-> "input", expr |-> Unreachable, type |-> undefinedType,
                   diagnostics |-> <<>>, throws |-> FALSE]

\* compileExpression(node, contextualType), which dispatches to compilePrefixUnary
CompilePrefixUnary ==
    /\ unaryRet.stage = "input"
    /\ LET r == compileExpression(unaryArgs.node, unaryArgs.contextualType,
                                  IF unaryArgs.uintptrSize = 4 THEN uintptrType32
                                                               ELSE uintptrType64,
                                  Locals(TRUE, unaryArgs.locals))
       IN unaryRet' = [stage |-> "returned", expr |-> r.expr, type |-> r.type,
                       diagnostics |-> r.diagnostics, throws |-> r.throws]
    /\ UNCHANGED <<unaryArgs, driverVars, funcVars, mangleVars, convVars>>

NextUnary == CompilePrefixUnary
SpecUnary == InitUnary /\ [][NextUnary]_vars

\* the operator was applied to the parameter a
AppliedTo(operators) ==
    /\ unaryRet.stage = "returned" /\ ~unaryRet.throws
    /\ unaryArgs.node.text \in operators
    /\ unaryArgs.node.children[1] = Identifier("a")
TypeOfA == unaryArgs.locals["a"].type
SlotOfA == unaryArgs.locals["a"].index
IntegerOrPointer == IntegerTypes \cup {uintptrType32, uintptrType64}

\* C23 as stated: `~` of an integer operand that is narrower than the
\* (integer) contextual type converts the operand to the contextual type,
\* emits the xor with all ones in the width of the contextual type, and the
\* reflected type of the node is the contextual type
C23_TildeWidens ==
    (/\ AppliedTo({"TildeToken"})
     /\ TypeOfA \in IntegerOrPointer /\ unaryArgs.contextualType \in IntegerOrPointer
     /\ TypeOfA.size < unaryArgs.contextualType.size) =>
        LET width == typeOf(unaryArgs.contextualType, unaryArgs.uintptrSize)
            operand == GetLocal(SlotOfA, typeOf(TypeOfA, unaryArgs.uintptrSize))
        IN /\ unaryRet.type = unaryArgs.contextualType
           /\ unaryRet.expr =
                 Binary(width \o ".xor",
                        maybeConvertValue(operand, TypeOfA, unaryArgs.contextualType, TRUE,
                                          unaryArgs.uintptrSize).expr,
                        Leaf(width \o ".const", -1))

\* C23 (amended): `~` of an operand of a 32-bit integer type is the xor with
\* all ones in 32 bits and of a 64-bit integer type in 64 bits, of the
\* unconverted operand, and the reflected type is the type of the operand,
\* whatever the contextual type; an integer operand narrower than 32 bits is
\* handed to maybeConvertValue (explicit) first, toward the contextual type
\* with a 64-bit xor and the contextual type as reflected type where the
\* contextual type is a 64-bit integer, toward int with a 32-bit xor and the
\* reflected type int otherwise
C23_TildeAmended ==
    (AppliedTo({"TildeToken"}) /\ TypeOfA \in IntegerOrPointer) =>
        LET operand == GetLocal(SlotOfA, typeOf(TypeOfA, unaryArgs.uintptrSize))
            target == IF unaryArgs.contextualType \in IntegerOrPointer
                         /\ unaryArgs.contextualType.bits = 64
                      THEN unaryArgs.contextualType ELSE intType
            handed == maybeConvertValue(operand, TypeOfA, target, TRUE,
                                        unaryArgs.uintptrSize).expr
        IN IF TypeOfA.bits = 64
           THEN /\ unaryRet.expr = Binary("i64.xor", operand, Leaf("i64.const", -1))
                /\ unaryRet.type = TypeOfA
           ELSE IF TypeOfA.bits = 32
           THEN /\ unaryRet.expr = Binary("i32.xor", operand, Leaf("i32.const", -1))
                /\ unaryRet.type = TypeOfA
           ELSE /\ unaryRet.expr =
                      IF target.bits = 64
                      THEN Binary("i64.xor", handed, Leaf("i64.const", -1))
                      ELSE Binary("i32.xor", handed, Leaf("i32.const", -1))
                /\ unaryRet.type = target

\* `~` was applied to an int parameter in a long context
C23_Witness ==
    /\ AppliedTo({"TildeToken"})
    /\ TypeOfA = intType /\ unaryArgs.contextualType = longType
    /\ unaryRet.type = intType

\* C24: whenever an expression lowerer returns, on the error paths that
\* return `unreachable` too, the reflected type of the node has been set
C24_ReflectedTypeSet ==
    (unaryRet.stage = "returned" /\ ~unaryRet.throws) => unaryRet.type # undefinedType

\* C25: prefix ++ and -- of an identifier bound to a local of type T at slot
\* idx emit set_local(idx, add/sub(get_local(idx), 1)) in a void context and
\* tee_local(idx, ...) otherwise, with the get_local, the constant and the
\* add/sub of the IR type of T; any other operand records an error and
\* yields unreachable
C25_Increment ==
    (/\ unaryRet.stage = "returned" /\ ~unaryRet.throws
     /\ unaryArgs.node.text \in {"PlusPlusToken", "MinusMinusToken"}) =>
        IF unaryArgs.node.children[1] = Identifier("a")
        THEN LET ir == typeOf(TypeOfA, unaryArgs.uintptrSize)
                 calculate ==
                     Binary(ir \o (IF unaryArgs.node.text = "PlusPlusToken" THEN ".add"
                                                                            ELSE ".sub"),
                            GetLocal(SlotOfA, ir), valueOf(TypeOfA, 1))
             IN unaryRet.expr = IF unaryArgs.contextualType = voidType
                                THEN SetLocal(SlotOfA, calculate)
                                ELSE TeeLocal(SlotOfA, calculate)
        ELSE /\ unaryRet.expr = Unreachable
             /\ \E i \in DOMAIN unaryRet.diagnostics :
                   unaryRet.diagnostics[i].category = "Error"

\* C26: after initialize every top-level enum declaration is in the enums
\* map under its name, with one property per member, and resolveReference
\* of the name of an enum returns that enum
C26_Enums ==
    AfterInitialize =>
        \A s \in Range(program) :
            s.kind = "EnumDeclaration" =>
                /\ s.name \in DOMAIN enums
                /\ resolveReference([globals |-> globals, enums |-> enums,
                                     classes |-> classes], UndefinedLocals, s.name).kind
                      = "Enum"

====
